---- MODULE Spec2Model ----
(***************************************************************************)
(* Sprite-sheet to GIF export: the frame sequencer, the geometry           *)
(* resolver, the chroma-key engine, the bounding-box analyzer and the      *)
(* compositor loop of generateGif, as state machines.                      *)
(*                                                                         *)
(*   Spec      the export pipeline (generateGif) over the render options   *)
(*   SeqSpec   the same pipeline over larger grids, fewer render options   *)
(*   TwiceSpec SeqSpec with generateGif called a second time               *)
(*   PixelSpec applyFloodFill, the global keying loop and                  *)
(*             getContentBoundingBox on small bitmaps                      *)
(*   DimSpec   the logical/output dimension calculation on large canvases  *)
(*   UiSpec    the App component's config state under the grid controls,   *)
(*             file upload and auto-detect                                 *)
(*   AppSpec   handleExport around the export pipeline                     *)
(***************************************************************************)
EXTENDS Integers, Sequences, FiniteSets, TLC

(***************************************************************************)
(* Pixels and colours.  A bitmap is a function from the pixel index        *)
(* vIdx = y * width + x to an RGBA record; the byte offset idx = vIdx * 4  *)
(* of the Uint8ClampedArray is left out.                                   *)
(***************************************************************************)
Rgb(r, g, b) == [r |-> r, g |-> g, b |-> b]

Rgba(r, g, b, a) == [r |-> r, g |-> g, b |-> b, a |-> a]

NoColor == [none |-> TRUE]

White == Rgba(255, 255, 255, 255)

NearWhite == Rgba(240, 240, 240, 255)

Red == Rgba(255, 0, 0, 255)

Clear == Rgba(0, 0, 0, 0)

\* distSq of getContentBoundingBox, matches and the global loop
DistSq(p, t) ==
    (p.r - t.r) * (p.r - t.r) + (p.g - t.g) * (p.g - t.g) + (p.b - t.b) * (p.b - t.b)

(***************************************************************************)
(* thresholdSq = ((tolerance / 100) * 441.67) ^ 2.  The pixel distances    *)
(* compared with it are integers, so distSq <= thresholdSq is decided by   *)
(* floor(thresholdSq) = floor(tolerance^2 * 44167^2 / 10^8), computed here *)
(* in pieces that stay below 2^31.  For an integer tolerance 1..100 the    *)
(* exact value is no integer (44167 is coprime to 10) and lies at least    *)
(* 10^-8 from one, far beyond the rounding of the double arithmetic; for   *)
(* tolerance 0 it is exactly 0.                                            *)
(***************************************************************************)
MaxDistCenti == 44167

ThresholdSq(tolerance) ==
    LET t2 == tolerance * tolerance
        m  == MaxDistCenti * MaxDistCenti
        hi == m \div 100000000
        mid == (m \div 10000) % 10000
        lo == m % 10000
    IN  t2 * hi + ((t2 * mid + ((t2 * lo) \div 10000)) \div 10000)

(***************************************************************************)
(* getContentBoundingBox: the scan y-outer, x-inner with running min/max.  *)
(***************************************************************************)
NoBox == [found |-> FALSE]

\* faulty variant: a pixel at exactly the threshold distance counts as content
IsContentMut(px, transparentRGB, thresholdSq) ==
    IF px.a = 0 THEN FALSE
    ELSE IF transparentRGB # NoColor THEN DistSq(px, transparentRGB) >= thresholdSq
    ELSE TRUE

IsContent(px, transparentRGB, thresholdSq) ==
    IF px.a = 0 THEN FALSE
    ELSE IF transparentRGB # NoColor THEN DistSq(px, transparentRGB) > thresholdSq
    ELSE TRUE

RECURSIVE ScanBox(_, _, _, _, _, _, _)
ScanBox(data, width, height, transparentRGB, thresholdSq, p, acc) ==
    IF p >= width * height THEN acc
    ELSE LET x == p % width
             y == p \div width
             next == IF IsContent(data[p], transparentRGB, thresholdSq)
                     THEN [minX |-> IF x < acc.minX THEN x ELSE acc.minX,
                           maxX |-> IF x > acc.maxX THEN x ELSE acc.maxX,
                           minY |-> IF y < acc.minY THEN y ELSE acc.minY,
                           maxY |-> IF y > acc.maxY THEN y ELSE acc.maxY,
                           found |-> TRUE]
                     ELSE acc
         IN  ScanBox(data, width, height, transparentRGB, thresholdSq, p + 1, next)

getContentBoundingBox(data, width, height, transparentRGB, thresholdSq) ==
    LET acc == ScanBox(data, width, height, transparentRGB, thresholdSq, 0,
                       [minX |-> width, minY |-> height, maxX |-> 0, maxY |-> 0,
                        found |-> FALSE])
    IN  IF ~acc.found THEN NoBox
        ELSE [found |-> TRUE, minX |-> acc.minX, minY |-> acc.minY,
              maxX |-> acc.maxX, maxY |-> acc.maxY,
              width |-> acc.maxX - acc.minX + 1,
              height |-> acc.maxY - acc.minY + 1]

(***************************************************************************)
(* applyFloodFill.  fl = [data, visited, queue, head]; queue is 1-based    *)
(* here, so queue[head + 1] is the code's queue[head].                     *)
(***************************************************************************)
KeyPixel(keyColor) == Rgba(keyColor.r, keyColor.g, keyColor.b, 255)

\* faulty variant: a transparent pixel is tested by its RGB like any other
matchesMut(data, vIdx, targetRGB, thresholdSq) ==
    DistSq(data[vIdx], targetRGB) <= thresholdSq

matches(data, vIdx, targetRGB, thresholdSq) ==
    IF data[vIdx].a = 0 THEN TRUE
    ELSE DistSq(data[vIdx], targetRGB) <= thresholdSq

\* faulty variant: a pixel already visited is tested and queued again
addSeedMut(fl, x, y, width, targetRGB, thresholdSq) ==
    LET vIdx == y * width + x
    IN  IF matches(fl.data, vIdx, targetRGB, thresholdSq)
        THEN [fl EXCEPT !.visited[vIdx] = TRUE, !.queue = Append(@, vIdx)]
        ELSE fl

addSeed(fl, x, y, width, targetRGB, thresholdSq) ==
    LET vIdx == y * width + x
    IN  IF fl.visited[vIdx] THEN fl
        ELSE IF matches(fl.data, vIdx, targetRGB, thresholdSq)
             THEN [fl EXCEPT !.visited[vIdx] = TRUE, !.queue = Append(@, vIdx)]
             ELSE fl

\* faulty variant: only the top and bottom rows are seeded
SeedOrderMut(width, height) ==
    LET RECURSIVE TopBottom(_)
        TopBottom(x) == IF x >= width THEN <<>>
                        ELSE <<<<x, 0>>, <<x, height - 1>>>> \o TopBottom(x + 1)
    IN  TopBottom(0)

\* the order in which the two seeding loops call addSeed
SeedOrder(width, height) ==
    LET RECURSIVE TopBottom(_)
        TopBottom(x) == IF x >= width THEN <<>>
                        ELSE <<<<x, 0>>, <<x, height - 1>>>> \o TopBottom(x + 1)
        RECURSIVE LeftRight(_)
        LeftRight(y) == IF y >= height - 1 THEN <<>>
                        ELSE <<<<0, y>>, <<width - 1, y>>>> \o LeftRight(y + 1)
    IN  TopBottom(0) \o LeftRight(1)

RECURSIVE AddSeeds(_, _, _, _, _)
AddSeeds(fl, seeds, width, targetRGB, thresholdSq) ==
    IF seeds = <<>> THEN fl
    ELSE AddSeeds(addSeed(fl, Head(seeds)[1], Head(seeds)[2], width, targetRGB, thresholdSq),
                  Tail(seeds), width, targetRGB, thresholdSq)

FloodStart(data, width, height, targetRGB, thresholdSq) ==
    AddSeeds([data |-> data,
              visited |-> [p \in 0..(width * height - 1) |-> FALSE],
              queue |-> <<>>,
              head |-> 0],
             SeedOrder(width, height), width, targetRGB, thresholdSq)

\* faulty variant: the fill also spreads across diagonals
NeighborsMut(x, y) ==
    <<<<x + 1, y>>, <<x - 1, y>>, <<x, y + 1>>, <<x, y - 1>>,
      <<x + 1, y + 1>>, <<x - 1, y - 1>>, <<x + 1, y - 1>>, <<x - 1, y + 1>>>>

Neighbors(x, y) == <<<<x + 1, y>>, <<x - 1, y>>, <<x, y + 1>>, <<x, y - 1>>>>

RECURSIVE VisitNeighbors(_, _, _, _, _, _)
VisitNeighbors(fl, ns, width, height, targetRGB, thresholdSq) ==
    IF ns = <<>> THEN fl
    ELSE LET nx == Head(ns)[1]
             ny == Head(ns)[2]
             nVIdx == ny * width + nx
             next == IF nx >= 0 /\ nx < width /\ ny >= 0 /\ ny < height
                     THEN IF ~fl.visited[nVIdx]
                          THEN IF matches(fl.data, nVIdx, targetRGB, thresholdSq)
                               THEN [fl EXCEPT !.visited[nVIdx] = TRUE,
                                               !.queue = Append(@, nVIdx)]
                               ELSE fl
                          ELSE fl
                     ELSE fl
         IN  VisitNeighbors(next, Tail(ns), width, height, targetRGB, thresholdSq)

\* one iteration of while (head < queue.length)
FloodIterate(fl, width, height, targetRGB, keyColor, thresholdSq) ==
    LET vIdx == fl.queue[fl.head + 1]
        x == vIdx % width
        y == vIdx \div width
        painted == [fl EXCEPT !.head = @ + 1, !.data[vIdx] = KeyPixel(keyColor)]
    IN  VisitNeighbors(painted, Neighbors(x, y), width, height, targetRGB, thresholdSq)

(***************************************************************************)
(* The global keying loop of generateGif (useFloodFill = false).           *)
(***************************************************************************)
\* faulty variant: a pixel at exactly the threshold distance is kept
RECURSIVE GlobalKeyLoopMut(_, _, _, _, _)
GlobalKeyLoopMut(data, p, targetRGB, keyColor, thresholdSq) ==
    IF p \notin DOMAIN data THEN data
    ELSE LET px == data[p]
             next == IF px.a = 0 THEN [data EXCEPT ![p] = KeyPixel(keyColor)]
                     ELSE IF DistSq(px, targetRGB) < thresholdSq
                          THEN [data EXCEPT ![p] = KeyPixel(keyColor)]
                          ELSE data
         IN  GlobalKeyLoopMut(next, p + 1, targetRGB, keyColor, thresholdSq)

RECURSIVE GlobalKeyLoop(_, _, _, _, _)
GlobalKeyLoop(data, p, targetRGB, keyColor, thresholdSq) ==
    IF p \notin DOMAIN data THEN data
    ELSE LET px == data[p]
             next == IF px.a = 0 THEN [data EXCEPT ![p] = KeyPixel(keyColor)]
                     ELSE IF DistSq(px, targetRGB) <= thresholdSq
                          THEN [data EXCEPT ![p] = KeyPixel(keyColor)]
                          ELSE data
         IN  GlobalKeyLoop(next, p + 1, targetRGB, keyColor, thresholdSq)

(***************************************************************************)
(* hexToRgb.  A colour string is a sequence of one-character strings; the  *)
(* regular expression accepts an optional "#" and exactly six hex digits   *)
(* of either case.                                                         *)
(***************************************************************************)
HexValue ==
    [ch \in {"0", "1", "2", "3", "4", "5", "6", "7", "8", "9",
             "a", "b", "c", "d", "e", "f", "A", "B", "C", "D", "E", "F"} |->
        CASE ch = "0" -> 0 [] ch = "1" -> 1 [] ch = "2" -> 2 [] ch = "3" -> 3
          [] ch = "4" -> 4 [] ch = "5" -> 5 [] ch = "6" -> 6 [] ch = "7" -> 7
          [] ch = "8" -> 8 [] ch = "9" -> 9
          [] ch \in {"a", "A"} -> 10 [] ch \in {"b", "B"} -> 11
          [] ch \in {"c", "C"} -> 12 [] ch \in {"d", "D"} -> 13
          [] ch \in {"e", "E"} -> 14 [] ch \in {"f", "F"} -> 15]

NoHex == <<>>

HexWhite == <<"#", "f", "f", "f", "f", "f", "f">>

HexMagenta == <<"#", "F", "F", "0", "0", "f", "f">>

hexToRgb(hex) ==
    LET digits == IF hex # <<>> /\ Head(hex) = "#" THEN Tail(hex) ELSE hex
        byte(i) == 16 * HexValue[digits[i]] + HexValue[digits[i + 1]]
    IN  IF Len(digits) = 6 /\ \A i \in 1..6 : digits[i] \in DOMAIN HexValue
        THEN Rgb(byte(1), byte(3), byte(5))
        ELSE NoColor

\* keyColor: green when the target is nearer than 100 to magenta, else magenta;
\* sqrt(d) < 100 is d < 10000 for the integer d
KeyDistance == 100

\* faulty variant: the key colour is magenta whatever the target
KeyColorForMut(transparentRGB) == Rgb(255, 0, 255)

KeyColorFor(transparentRGB) ==
    LET d == DistSq(transparentRGB, Rgb(255, 0, 255))
    IN  IF d < KeyDistance * KeyDistance THEN Rgb(0, 255, 0) ELSE Rgb(255, 0, 255)

(***************************************************************************)
(* IEEE-754 double arithmetic for resizeRatio = 1024 / maxSide and         *)
(* Math.floor(logical * resizeRatio).  A positive double is [m, exp]: the  *)
(* 53-bit mantissa M = m[1]*2^52 + m[2]*2^39 + m[3]*2^26 + m[4]*2^13 + m[5] *)
(* in limbs of 13 bits under the leading bit m[1] = 1, standing for        *)
(* M * 2^exp.  Rounding is to nearest, ties to even.  The limbs keep every *)
(* intermediate value below 2^31 for operands below 2^13.                  *)
(***************************************************************************)
Limb == 2 ^ 13

\* M + 1, renormalised when it reaches 2^53
RoundUp(m, exp) ==
    LET c5 == (m[5] + 1) \div Limb
        c4 == (m[4] + c5) \div Limb
        c3 == (m[3] + c4) \div Limb
        c2 == (m[2] + c3) \div Limb
        top == m[1] + c2
    IN  IF top = 2
        THEN [m |-> <<1, 0, 0, 0, 0>>, exp |-> exp + 1]
        ELSE [m |-> <<top, (m[2] + c3) % Limb, (m[3] + c4) % Limb,
                      (m[4] + c5) % Limb, (m[5] + 1) % Limb>>,
              exp |-> exp]

\* a / b for integers a, b > 0, rounded to a double; e counts the doublings
RECURSIVE DoubleDiv(_, _, _)
DoubleDiv(a, b, e) ==
    IF a >= 2 * b THEN DoubleDiv(a, 2 * b, e + 1)
    ELSE IF a < b THEN DoubleDiv(2 * a, b, e - 1)
    ELSE LET r1 == a - b
             m2 == (r1 * Limb) \div b
             r2 == (r1 * Limb) % b
             m3 == (r2 * Limb) \div b
             r3 == (r2 * Limb) % b
             m4 == (r3 * Limb) \div b
             r4 == (r3 * Limb) % b
             m5 == (r4 * Limb) \div b
             r5 == (r4 * Limb) % b
             m == <<1, m2, m3, m4, m5>>
         IN  IF 2 * r5 > b \/ (2 * r5 = b /\ m5 % 2 = 1)
             THEN RoundUp(m, e - 52)
             ELSE [m |-> m, exp |-> e - 52]

\* the number of bits of n >= 1 above its lowest
RECURSIVE ExtraBits(_)
ExtraBits(n) == IF n < 2 THEN 0 ELSE 1 + ExtraBits(n \div 2)

\* w * d for an integer 0 < w < 2^13 (exact as a double) and a double d, rounded
DoubleTimes(w, d) ==
    LET t5 == w * d.m[5]
        t4 == w * d.m[4] + t5 \div Limb
        t3 == w * d.m[3] + t4 \div Limb
        t2 == w * d.m[2] + t3 \div Limb
        t1 == w * d.m[1] + t2 \div Limb
        p == <<t1, t2 % Limb, t3 % Limb, t4 % Limb, t5 % Limb>>
        k == ExtraBits(t1)
        low == 2 ^ k
        high == Limb \div low
        kept == <<p[1] \div low,
                  (p[1] % low) * high + p[2] \div low,
                  (p[2] % low) * high + p[3] \div low,
                  (p[3] % low) * high + p[4] \div low,
                  (p[4] % low) * high + p[5] \div low>>
        dropped == p[5] % low
    IN  IF k > 0 /\ (2 * dropped > low \/ (2 * dropped = low /\ kept[5] % 2 = 1))
        THEN RoundUp(kept, d.exp + k)
        ELSE [m |-> kept, exp |-> d.exp + k]

\* Math.floor of a positive double below 2^26
DoubleFloor(d) ==
    IF d.exp <= -53 THEN 0
    ELSE IF d.exp <= -39 THEN (d.m[1] * Limb + d.m[2]) \div (2 ^ (-39 - d.exp))
    ELSE (d.m[1] * Limb * Limb + d.m[2] * Limb + d.m[3]) \div (2 ^ (-26 - d.exp))

(***************************************************************************)
(* DIMENSION CALCULATION of generateGif: logical = floor(final * scale),   *)
(* output = logical, or floor(logical * (1024 / maxSide)) under            *)
(* maxResolution1024.  scale is one of the select's options 0.5, 1, 2, 4,  *)
(* held as scaleHalves = 2 * scale, so that final * scale is exact for the *)
(* whole-pixel sizes of this model.                                        *)
(***************************************************************************)
MaxSide == 1024

ScaleFloor(n, scaleHalves) == (n * scaleHalves) \div 2

Max(a, b) == IF a > b THEN a ELSE b

OutputDims(logicalWidth, logicalHeight, maxResolution1024) ==
    LET maxSide == Max(logicalWidth, logicalHeight)
    IN  IF maxResolution1024 /\ maxSide > MaxSide
        THEN LET resizeRatio == DoubleDiv(MaxSide, maxSide, 0)
             IN  [outputWidth |-> IF logicalWidth = 0 THEN 0
                                  ELSE DoubleFloor(DoubleTimes(logicalWidth, resizeRatio)),
                  outputHeight |-> IF logicalHeight = 0 THEN 0
                                   ELSE DoubleFloor(DoubleTimes(logicalHeight, resizeRatio)),
                  resized |-> TRUE]
        ELSE [outputWidth |-> logicalWidth, outputHeight |-> logicalHeight,
              resized |-> FALSE]

(***************************************************************************)
(* State.                                                                  *)
(*   config, image   the arguments of generateGif (dimensions are the      *)
(*                   image's natural size)                                 *)
(*   platform        what the browser and the encoder library answer:      *)
(*                   whether getContext('2d') hands out a context for the  *)
(*                   analysis, buffer and output canvas, and whether       *)
(*                   addFrame takes a frame of an encoder without area;    *)
(*                   decided when first asked, the same for a later run    *)
(*   pc, loc         position in generateGif and its local variables       *)
(*   canvases        the canvases created so far, in order                 *)
(*   draws           number of drawImage calls made so far                 *)
(*   gif             the encoder: options, submitted frames, callbacks     *)
(*   outcome         the promise: pending, resolved or rejected            *)
(*   run, first      the number of the current call and the result of the  *)
(*                   first call once a second one has begun                *)
(*   lab             the bitmap bench of PixelSpec                         *)
(*   dim             the canvas bench of DimSpec                           *)
(*   ui              the App component around config: the text of the two  *)
(*                   number inputs, imageUrl, processingState, and which   *)
(*                   of rows, cols, totalFrames the user has set by hand   *)
(***************************************************************************)
VARIABLES config, image, platform, pc, loc, canvases, draws, gif, outcome,
          run, first, lab, dim, ui

exportVars == <<config, image, platform, pc, loc, canvases, draws, gif, outcome,
                run, first>>

vars == <<config, image, platform, pc, loc, canvases, draws, gif, outcome,
          run, first, lab, dim, ui>>

(***************************************************************************)
(* Source images.  Sheet is a 6 x 4 sheet on a transparent background with *)
(* a few opaque red pixels and one opaque white pixel; Poster is a large   *)
(* opaque white image whose cells overflow 1024 px when scaled.            *)
(***************************************************************************)
Sheet == [id |-> "sheet", width |-> 6, height |-> 4]

Poster == [id |-> "poster", width |-> 600, height |-> 300]

SheetRed == {<<0, 0>>, <<0, 1>>, <<3, 1>>, <<0, 3>>, <<1, 3>>, <<2, 2>>}

SheetWhite == {<<4, 0>>}

ImagePixel(img, x, y) ==
    IF img.id = "poster" THEN White
    ELSE IF <<x, y>> \in SheetRed THEN Red
    ELSE IF <<x, y>> \in SheetWhite THEN White
    ELSE Clear

(***************************************************************************)
(* Configurations.  excludedFrames is held as a set: handleToggleFrame     *)
(* never adds an index twice.  Cells are whole pixels: the grid divides    *)
(* the image's width and height.                                           *)
(***************************************************************************)
MaxRows == 2

MaxCols == 2

MaxExcluded == 1

SeqMaxRows == 2

SeqMaxCols == 3

SeqMaxExcluded == 2

InitialFps == 12

InitialTolerance == 10

Crop(top, bottom, left, right) ==
    [top |-> top, bottom |-> bottom, left |-> left, right |-> right]

Crops == {Crop(0, 0, 0, 0), Crop(1, 0, 1, 0), Crop(0, 0, 2, 1), Crop(2, 1, 0, 0)}

ScaleOptions == {1, 2, 4, 8}

SeqConfigs(maxRows, maxCols, maxExcluded) ==
    UNION {
      {[rows |-> rows, cols |-> cols, totalFrames |-> totalFrames,
        excludedFrames |-> excludedFrames, readOrder |-> readOrder] :
          totalFrames \in 1..(rows * cols + 1),
          excludedFrames \in {e \in SUBSET (0..(rows * cols)) : Cardinality(e) <= maxExcluded},
          readOrder \in {"row-major", "column-major"}} :
      rows \in 1..maxRows, cols \in 1..maxCols}

AlignOptions ==
    {[autoAlign |-> FALSE, alignMode |-> "center"],
     [autoAlign |-> TRUE, alignMode |-> "center"],
     [autoAlign |-> TRUE, alignMode |-> "bottom"]}

KeyOptions ==
    {[transparent |-> NoHex, useFloodFill |-> TRUE],
     [transparent |-> HexWhite, useFloodFill |-> TRUE],
     [transparent |-> HexWhite, useFloodFill |-> FALSE]}

RenderOptions ==
    {[img |-> Sheet, crop |-> crop, scaleHalves |-> scaleHalves, align |-> align,
      key |-> key, maxResolution1024 |-> FALSE] :
        crop \in Crops, scaleHalves \in ScaleOptions, align \in AlignOptions,
        key \in KeyOptions}
    \cup
    {[img |-> Sheet, crop |-> Crop(0, 0, 0, 0), scaleHalves |-> scaleHalves,
      align |-> [autoAlign |-> FALSE, alignMode |-> "center"],
      key |-> key, maxResolution1024 |-> TRUE] :
        scaleHalves \in ScaleOptions, key \in KeyOptions}
    \cup
    {[img |-> Poster, crop |-> crop, scaleHalves |-> scaleHalves,
      align |-> [autoAlign |-> FALSE, alignMode |-> "center"],
      key |-> key, maxResolution1024 |-> maxResolution1024] :
        crop \in {Crop(0, 0, 0, 0), Crop(1, 0, 1, 0)}, scaleHalves \in {4, 8},
        key \in KeyOptions, maxResolution1024 \in BOOLEAN}

\* a few render options for the runs that vary the grid
SeqRenderOptions ==
    {[img |-> Sheet, crop |-> Crop(0, 0, 0, 0), scaleHalves |-> 2,
      align |-> [autoAlign |-> FALSE, alignMode |-> "center"],
      key |-> [transparent |-> NoHex, useFloodFill |-> TRUE],
      maxResolution1024 |-> FALSE],
     [img |-> Sheet, crop |-> Crop(0, 0, 0, 0), scaleHalves |-> 4,
      align |-> [autoAlign |-> TRUE, alignMode |-> "bottom"],
      key |-> [transparent |-> HexWhite, useFloodFill |-> TRUE],
      maxResolution1024 |-> FALSE],
     [img |-> Poster, crop |-> Crop(1, 0, 1, 0), scaleHalves |-> 8,
      align |-> [autoAlign |-> FALSE, alignMode |-> "center"],
      key |-> [transparent |-> HexWhite, useFloodFill |-> FALSE],
      maxResolution1024 |-> TRUE]}

\* the same, and a crop that leaves nothing of the frame
AppRenderOptions ==
    SeqRenderOptions \cup
    {[img |-> Sheet, crop |-> Crop(2, 1, 0, 0), scaleHalves |-> 2,
      align |-> [autoAlign |-> FALSE, alignMode |-> "center"],
      key |-> [transparent |-> NoHex, useFloodFill |-> TRUE],
      maxResolution1024 |-> FALSE]}

\* the colour input's value for a colour: "#rrggbb" in lower case
HexDigits == <<"0", "1", "2", "3", "4", "5", "6", "7", "8", "9", "a", "b", "c", "d", "e", "f">>

HexOf(byte) == <<HexDigits[(byte \div 16) + 1], HexDigits[(byte % 16) + 1]>>

HexColor(r, g, b) == <<"#">> \o HexOf(r) \o HexOf(g) \o HexOf(b)

\* channel values that put targets on, inside, just inside and far outside the
\* sphere of radius 100 around magenta
KeyBytes == {0, 155, 156, 195, 255}

KeyTargets == {HexColor(r, g, b) : r \in KeyBytes, g \in KeyBytes, b \in KeyBytes}

\* a two-frame strip exported with each target colour, and with none
KeySeqs ==
    {[rows |-> 1, cols |-> 2, totalFrames |-> 2, excludedFrames |-> {},
      readOrder |-> "row-major"]}

KeyRenderOptions ==
    {[img |-> Sheet, crop |-> Crop(0, 0, 0, 0), scaleHalves |-> 2,
      align |-> [autoAlign |-> autoAlign, alignMode |-> "center"],
      key |-> [transparent |-> transparent, useFloodFill |-> useFloodFill],
      maxResolution1024 |-> FALSE] :
        autoAlign \in BOOLEAN, transparent \in KeyTargets \cup {NoHex},
        useFloodFill \in BOOLEAN}

MakeConfig(seq, opt) ==
    [rows |-> seq.rows, cols |-> seq.cols, totalFrames |-> seq.totalFrames,
     excludedFrames |-> seq.excludedFrames, readOrder |-> seq.readOrder,
     fps |-> InitialFps, scaleHalves |-> opt.scaleHalves,
     transparent |-> opt.key.transparent, tolerance |-> InitialTolerance,
     useFloodFill |-> opt.key.useFloodFill,
     autoAlign |-> opt.align.autoAlign, alignMode |-> opt.align.alignMode,
     crop |-> opt.crop, maxResolution1024 |-> opt.maxResolution1024]

(***************************************************************************)
(* generateGif, one action per stage of the promise executor.              *)
(***************************************************************************)
LocInit ==
    [frameWidthRaw |-> 0, frameHeightRaw |-> 0, cropWidth |-> 0, cropHeight |-> 0,
     validFrameCoordinates |-> <<>>,
     transparentRGB |-> NoColor, keyColor |-> NoColor, thresholdSq |-> 0,
     finalWidth |-> 0, finalHeight |-> 0, frameBBoxes |-> <<>>,
     analysisCtx |-> FALSE, maxW |-> 0, maxH |-> 0, ai |-> 1,
     logicalWidth |-> 0, logicalHeight |-> 0,
     outputWidth |-> 0, outputHeight |-> 0, resized |-> FALSE,
     bufferCtx |-> FALSE, outputCtx |-> FALSE, smoothing |-> FALSE, ri |-> 1]

GifInit ==
    [created |-> FALSE, width |-> 0, height |-> 0, transparent |-> -1,
     delay |-> <<0, 1>>, frames |-> <<>>, handlers |-> {}, rendering |-> FALSE,
     progress |-> 0]

\* The promise.  error names the rejection: "crop too large" and "no valid
\* frames" stand for the two Error objects with the Chinese messages of the crop
\* check and the empty sequence, "Could not create canvas context" is the string
\* rejected as such, and the DOM exception names are what the executor's throw
\* rejects with.
Pending == [state |-> "pending", error |-> ""]

Rejected(error) == [state |-> "rejected", error |-> error]

Resolved == [state |-> "resolved", error |-> ""]

Reject(error) ==
    /\ outcome' = Rejected(error)
    /\ pc' = "done"

\* the answers the platform may give to the named question
Answers(name) ==
    IF platform[name] = "unknown" THEN {TRUE, FALSE} ELSE {platform[name] = "ok"}

Remember(name, answer) == [platform EXCEPT ![name] = IF answer THEN "ok" ELSE "null"]

\* getContext('2d') on the named canvas: a context, or null
GetContext(name) == Answers(name)

\* faulty variant: a crop that leaves exactly nothing is let through
CheckCropMut ==
    /\ pc = "start"
    /\ LET frameWidthRaw == image.width \div config.cols
           frameHeightRaw == image.height \div config.rows
           cropWidth == frameWidthRaw - config.crop.left - config.crop.right
           cropHeight == frameHeightRaw - config.crop.top - config.crop.bottom
       IN  /\ loc' = [loc EXCEPT !.frameWidthRaw = frameWidthRaw,
                                 !.frameHeightRaw = frameHeightRaw,
                                 !.cropWidth = cropWidth,
                                 !.cropHeight = cropHeight]
           /\ IF cropWidth < 0 \/ cropHeight < 0
              THEN Reject("crop too large")
              ELSE pc' = "sequence" /\ UNCHANGED outcome
    /\ UNCHANGED <<config, image, platform, canvases, draws, gif, run, first, lab, dim, ui>>

\* the crop check: frameWidthRaw, frameHeightRaw, cropWidth, cropHeight
CheckCrop ==
    /\ pc = "start"
    /\ LET frameWidthRaw == image.width \div config.cols
           frameHeightRaw == image.height \div config.rows
           cropWidth == frameWidthRaw - config.crop.left - config.crop.right
           cropHeight == frameHeightRaw - config.crop.top - config.crop.bottom
       IN  /\ loc' = [loc EXCEPT !.frameWidthRaw = frameWidthRaw,
                                 !.frameHeightRaw = frameHeightRaw,
                                 !.cropWidth = cropWidth,
                                 !.cropHeight = cropHeight]
           /\ IF cropWidth <= 0 \/ cropHeight <= 0
              THEN Reject("crop too large")
              ELSE pc' = "sequence" /\ UNCHANGED outcome
    /\ UNCHANGED <<config, image, platform, canvases, draws, gif, run, first, lab, dim, ui>>

\* faulty variant: column-major traversal that keeps the row-major cell number
TempCoordsMut(rows, cols, readOrder) ==
    [k \in 1..(rows * cols) |->
        IF readOrder = "column-major"
        THEN LET c == (k - 1) \div rows
                 r == (k - 1) % rows
             IN  [r |-> r, c |-> c, index |-> r * cols + c]
        ELSE LET r == (k - 1) \div cols
                 c == (k - 1) % cols
             IN  [r |-> r, c |-> c, index |-> r * cols + c]]

\* tempCoords: every grid cell in traversal order; position k (from 1) is the
\* k-th push of the nested loops
TempCoords(rows, cols, readOrder) ==
    [k \in 1..(rows * cols) |->
        IF readOrder = "column-major"
        THEN LET c == (k - 1) \div rows
                 r == (k - 1) % rows
             IN  [r |-> r, c |-> c, index |-> c * rows + r]
        ELSE LET r == (k - 1) \div cols
                 c == (k - 1) % cols
             IN  [r |-> r, c |-> c, index |-> r * cols + c]]

\* faulty variant: the exclusion list is looked up by column instead of by index
RECURSIVE FilterCoordsMut(_, _, _)
FilterCoordsMut(tempCoords, totalFrames, excludedFrames) ==
    IF tempCoords = <<>> THEN <<>>
    ELSE LET item == Head(tempCoords)
             rest == FilterCoordsMut(Tail(tempCoords), totalFrames, excludedFrames)
         IN  IF item.index < totalFrames /\ item.c \notin excludedFrames
             THEN <<[r |-> item.r, c |-> item.c, originalIndex |-> item.index]>> \o rest
             ELSE rest

RECURSIVE FilterCoords(_, _, _)
FilterCoords(tempCoords, totalFrames, excludedFrames) ==
    IF tempCoords = <<>> THEN <<>>
    ELSE LET item == Head(tempCoords)
             rest == FilterCoords(Tail(tempCoords), totalFrames, excludedFrames)
         IN  IF item.index < totalFrames /\ item.index \notin excludedFrames
             THEN <<[r |-> item.r, c |-> item.c, originalIndex |-> item.index]>> \o rest
             ELSE rest

ValidFrameCoordinates(cfg) ==
    FilterCoords(TempCoords(cfg.rows, cfg.cols, cfg.readOrder),
                 cfg.totalFrames, cfg.excludedFrames)

\* PreviewPlayer's getValidFrameIndices: the same traversal, filtering as it goes
getValidFrameIndices(cfg) ==
    LET keep(i) == i < cfg.totalFrames /\ i \notin cfg.excludedFrames
        RECURSIVE ColumnMajor(_, _)
        ColumnMajor(c, r) ==
            IF c >= cfg.cols THEN <<>>
            ELSE IF r >= cfg.rows THEN ColumnMajor(c + 1, 0)
            ELSE LET i == c * cfg.rows + r
                 IN  (IF keep(i) THEN <<i>> ELSE <<>>) \o ColumnMajor(c, r + 1)
        RECURSIVE RowMajor(_, _)
        RowMajor(r, c) ==
            IF r >= cfg.rows THEN <<>>
            ELSE IF c >= cfg.cols THEN RowMajor(r + 1, 0)
            ELSE LET i == r * cfg.cols + c
                 IN  (IF keep(i) THEN <<i>> ELSE <<>>) \o RowMajor(r, c + 1)
    IN  IF cfg.readOrder = "column-major" THEN ColumnMajor(0, 0) ELSE RowMajor(0, 0)

\* faulty variant: the row and column are derived as in row-major order
PreviewCellMut(cfg, frameIndex) ==
    [row |-> frameIndex \div cfg.cols, col |-> frameIndex % cfg.cols]

\* PreviewPlayer's animate: the row and column derived back from a frame index
PreviewCell(cfg, frameIndex) ==
    IF cfg.readOrder = "column-major"
    THEN [row |-> frameIndex % cfg.rows, col |-> frameIndex \div cfg.rows]
    ELSE [row |-> frameIndex \div cfg.cols, col |-> frameIndex % cfg.cols]

\* SpriteCanvas's renderGridOverlay: the i-th cell of the CSS grid, the sequence
\* index it toggles, and the number it shows
OverlayCell(cfg, i) ==
    LET r == i \div cfg.cols
        c == i % cfg.cols
        seqIndex == IF cfg.readOrder = "column-major"
                    THEN c * cfg.rows + r
                    ELSE r * cfg.cols + c
    IN  [r |-> r, c |-> c, seqIndex |-> seqIndex, shown |-> seqIndex + 1,
         isExcluded |-> seqIndex \in cfg.excludedFrames,
         isOutOfRange |-> seqIndex >= cfg.totalFrames]

\* faulty variant: an empty sequence goes on to the canvases
SequenceMut ==
    /\ pc = "sequence"
    /\ loc' = [loc EXCEPT !.validFrameCoordinates = ValidFrameCoordinates(config)]
    /\ pc' = "transparency"
    /\ UNCHANGED <<config, image, platform, canvases, draws, gif, outcome, run, first,
                   lab, dim, ui>>

Sequence ==
    /\ pc = "sequence"
    /\ LET valid == ValidFrameCoordinates(config)
       IN  /\ loc' = [loc EXCEPT !.validFrameCoordinates = valid]
           /\ IF Len(valid) = 0
              THEN Reject("no valid frames")
              ELSE pc' = "transparency" /\ UNCHANGED outcome
    /\ UNCHANGED <<config, image, platform, canvases, draws, gif, run, first, lab, dim, ui>>

PrepTransparency ==
    /\ pc = "transparency"
    /\ LET transparentRGB == IF config.transparent # NoHex
                             THEN hexToRgb(config.transparent) ELSE NoColor
       IN  loc' = IF transparentRGB # NoColor
                  THEN [loc EXCEPT !.transparentRGB = transparentRGB,
                                   !.keyColor = KeyColorFor(transparentRGB),
                                   !.thresholdSq = ThresholdSq(config.tolerance)]
                  ELSE loc
    /\ pc' = "analysisCanvas"
    /\ UNCHANGED <<config, image, platform, canvases, draws, gif, outcome, run, first,
                   lab, dim, ui>>

Canvas(name, width, height) == [name |-> name, width |-> width, height |-> height]

\* finalWidth/finalHeight, the analysis canvas and its context
AnalysisSetup ==
    /\ pc = "analysisCanvas"
    /\ canvases' = Append(canvases, Canvas("analysis", loc.cropWidth, loc.cropHeight))
    /\ \E ctx \in GetContext("analysis") :
         /\ platform' = Remember("analysis", ctx)
         /\ loc' = [loc EXCEPT !.finalWidth = loc.cropWidth,
                               !.finalHeight = loc.cropHeight,
                               !.analysisCtx = ctx]
         /\ pc' = IF config.autoAlign /\ ctx THEN "analyze" ELSE "dimensions"
    /\ UNCHANGED <<config, image, draws, gif, outcome, run, first, lab, dim, ui>>

\* what getImageData returns after the cell's cropped region was drawn 1:1
CellBitmap(img, srcX, srcY, width, height) ==
    [p \in 0..(width * height - 1) |-> ImagePixel(img, srcX + (p % width), srcY + (p \div width))]

\* faulty variant: the last box found, not the largest, sizes the canvas
AnalyzeFrameMut ==
    /\ pc = "analyze"
    /\ loc.ai <= Len(loc.validFrameCoordinates)
    /\ LET f == loc.validFrameCoordinates[loc.ai]
           data == CellBitmap(image,
                              f.c * loc.frameWidthRaw + config.crop.left,
                              f.r * loc.frameHeightRaw + config.crop.top,
                              loc.cropWidth, loc.cropHeight)
           bbox == getContentBoundingBox(data, loc.cropWidth, loc.cropHeight,
                                         loc.transparentRGB, loc.thresholdSq)
       IN  loc' = [loc EXCEPT
                     !.frameBBoxes = (f.originalIndex :> bbox) @@ @,
                     !.maxW = IF bbox.found THEN bbox.width ELSE @,
                     !.maxH = IF bbox.found THEN bbox.height ELSE @,
                     !.ai = @ + 1]
    /\ draws' = draws + 1
    /\ UNCHANGED <<config, image, platform, pc, canvases, gif, outcome, run, first,
                   lab, dim, ui>>

\* one iteration of the analysis loop over validFrameCoordinates
AnalyzeFrame ==
    /\ pc = "analyze"
    /\ loc.ai <= Len(loc.validFrameCoordinates)
    /\ LET f == loc.validFrameCoordinates[loc.ai]
           data == CellBitmap(image,
                              f.c * loc.frameWidthRaw + config.crop.left,
                              f.r * loc.frameHeightRaw + config.crop.top,
                              loc.cropWidth, loc.cropHeight)
           bbox == getContentBoundingBox(data, loc.cropWidth, loc.cropHeight,
                                         loc.transparentRGB, loc.thresholdSq)
       IN  loc' = [loc EXCEPT
                     !.frameBBoxes = (f.originalIndex :> bbox) @@ @,
                     !.maxW = IF bbox.found THEN Max(@, bbox.width) ELSE @,
                     !.maxH = IF bbox.found THEN Max(@, bbox.height) ELSE @,
                     !.ai = @ + 1]
    /\ draws' = draws + 1
    /\ UNCHANGED <<config, image, platform, pc, canvases, gif, outcome, run, first,
                   lab, dim, ui>>

\* after the loop: the canvas becomes the largest box plus a 2px margin
AlignMargin == 2

\* faulty variant: the canvas size is decided after the first analysed frame
AnalysisDoneMut ==
    /\ pc = "analyze"
    /\ loc.ai > 1
    /\ loc' = IF loc.maxW > 0 /\ loc.maxH > 0
              THEN [loc EXCEPT !.finalWidth = loc.maxW + AlignMargin,
                               !.finalHeight = loc.maxH + AlignMargin]
              ELSE loc
    /\ pc' = "dimensions"
    /\ UNCHANGED <<config, image, platform, canvases, draws, gif, outcome, run, first,
                   lab, dim, ui>>

AnalysisDone ==
    /\ pc = "analyze"
    /\ loc.ai > Len(loc.validFrameCoordinates)
    /\ loc' = IF loc.maxW > 0 /\ loc.maxH > 0
              THEN [loc EXCEPT !.finalWidth = loc.maxW + AlignMargin,
                               !.finalHeight = loc.maxH + AlignMargin]
              ELSE loc
    /\ pc' = "dimensions"
    /\ UNCHANGED <<config, image, platform, canvases, draws, gif, outcome, run, first,
                   lab, dim, ui>>

Dimensions ==
    /\ pc = "dimensions"
    /\ LET logicalWidth == ScaleFloor(loc.finalWidth, config.scaleHalves)
           logicalHeight == ScaleFloor(loc.finalHeight, config.scaleHalves)
           out == OutputDims(logicalWidth, logicalHeight, config.maxResolution1024)
       IN  loc' = [loc EXCEPT !.logicalWidth = logicalWidth,
                              !.logicalHeight = logicalHeight,
                              !.outputWidth = out.outputWidth,
                              !.outputHeight = out.outputHeight,
                              !.resized = out.resized]
    /\ pc' = "gifSetup"
    /\ UNCHANGED <<config, image, platform, canvases, draws, gif, outcome, run, first,
                   lab, dim, ui>>

\* new GIF(gifOptions) and delay = 1000 / fps, kept as the fraction <<1000, fps>>
GifSetup ==
    /\ pc = "gifSetup"
    /\ gif' = [gif EXCEPT
                 !.created = TRUE,
                 !.width = loc.outputWidth,
                 !.height = loc.outputHeight,
                 !.transparent = IF config.transparent # NoHex /\ loc.keyColor # NoColor
                                 THEN 65536 * loc.keyColor.r + 256 * loc.keyColor.g
                                      + loc.keyColor.b
                                 ELSE -1,
                 !.delay = <<1000, config.fps>>]
    /\ pc' = "canvasSetup"
    /\ UNCHANGED <<config, image, platform, loc, canvases, draws, outcome, run, first,
                   lab, dim, ui>>

\* the buffer canvas, and the output canvas when resizeRatio !== 1.0
CanvasSetup ==
    /\ pc = "canvasSetup"
    /\ \E bufferCtx \in GetContext("buffer") :
         IF ~bufferCtx
         THEN /\ canvases' = Append(canvases,
                                    Canvas("buffer", loc.logicalWidth, loc.logicalHeight))
              /\ platform' = Remember("buffer", bufferCtx)
              /\ Reject("Could not create canvas context")
              /\ UNCHANGED loc
         ELSE IF ~loc.resized
         THEN /\ canvases' = Append(canvases,
                                    Canvas("buffer", loc.logicalWidth, loc.logicalHeight))
              /\ platform' = Remember("buffer", bufferCtx)
              /\ loc' = [loc EXCEPT !.bufferCtx = TRUE]
              /\ pc' = "render"
              /\ UNCHANGED outcome
         ELSE \E outputCtx \in GetContext("output") :
              /\ canvases' = canvases \o
                             <<Canvas("buffer", loc.logicalWidth, loc.logicalHeight),
                               Canvas("output", loc.outputWidth, loc.outputHeight)>>
              /\ platform' = [platform EXCEPT
                                !["buffer"] = "ok",
                                !["output"] = IF outputCtx THEN "ok" ELSE "null"]
              /\ loc' = [loc EXCEPT !.bufferCtx = TRUE,
                                    !.outputCtx = outputCtx,
                                    !.smoothing = outputCtx /\ config.transparent = NoHex]
              /\ pc' = "render"
              /\ UNCHANGED outcome
    /\ UNCHANGED <<config, image, draws, gif, run, first, lab, dim, ui>>

\* the frame's own box, or none when the analysis recorded nothing for it
BoxOf(frameBBoxes, originalIndex) ==
    IF originalIndex \in DOMAIN frameBBoxes THEN frameBBoxes[originalIndex] ELSE NoBox

NoDraw == [drawn |-> FALSE]

\* faulty variant: the box is centred vertically whatever the align mode
AlignedDrawMut(f, bbox, l, cfg) ==
    LET scaledBboxW == ScaleFloor(bbox.width, cfg.scaleHalves)
        scaledBboxH == ScaleFloor(bbox.height, cfg.scaleHalves)
        destX == (l.logicalWidth - scaledBboxW) \div 2
        destY == (l.logicalHeight - scaledBboxH) \div 2
    IN  [drawn |-> TRUE,
         sx |-> f.c * l.frameWidthRaw + cfg.crop.left + bbox.minX,
         sy |-> f.r * l.frameHeightRaw + cfg.crop.top + bbox.minY,
         sw |-> bbox.width, sh |-> bbox.height,
         dx |-> destX, dy |-> destY, dw |-> scaledBboxW, dh |-> scaledBboxH]

\* the drawImage call of the auto-align branch for one frame
AlignedDraw(f, bbox, l, cfg) ==
    LET scaledBboxW == ScaleFloor(bbox.width, cfg.scaleHalves)
        scaledBboxH == ScaleFloor(bbox.height, cfg.scaleHalves)
        destX == (l.logicalWidth - scaledBboxW) \div 2
        destY == IF cfg.alignMode = "bottom"
                 THEN l.logicalHeight - scaledBboxH
                 ELSE (l.logicalHeight - scaledBboxH) \div 2
    IN  [drawn |-> TRUE,
         sx |-> f.c * l.frameWidthRaw + cfg.crop.left + bbox.minX,
         sy |-> f.r * l.frameHeightRaw + cfg.crop.top + bbox.minY,
         sw |-> bbox.width, sh |-> bbox.height,
         dx |-> destX, dy |-> destY, dw |-> scaledBboxW, dh |-> scaledBboxH]

\* the drawImage call of the standard branch
StandardDraw(f, l, cfg) ==
    [drawn |-> TRUE,
     sx |-> f.c * l.frameWidthRaw + cfg.crop.left,
     sy |-> f.r * l.frameHeightRaw + cfg.crop.top,
     sw |-> l.cropWidth, sh |-> l.cropHeight,
     dx |-> 0, dy |-> 0, dw |-> l.logicalWidth, dh |-> l.logicalHeight]

\* faulty variant: a frame without a box is drawn from the first cell of the sheet
FrameDrawMut(f, l, cfg) ==
    IF cfg.autoAlign
    THEN LET bbox == BoxOf(l.frameBBoxes, f.originalIndex)
         IN  IF bbox.found THEN AlignedDraw(f, bbox, l, cfg)
             ELSE StandardDraw([f EXCEPT !.r = 0, !.c = 0], l, cfg)
    ELSE StandardDraw(f, l, cfg)

FrameDraw(f, l, cfg) ==
    IF cfg.autoAlign
    THEN LET bbox == BoxOf(l.frameBBoxes, f.originalIndex)
         IN  IF bbox.found THEN AlignedDraw(f, bbox, l, cfg) ELSE NoDraw
    ELSE StandardDraw(f, l, cfg)

KeyingOf(l, cfg) ==
    IF l.transparentRGB # NoColor /\ l.keyColor # NoColor
    THEN IF cfg.useFloodFill THEN "flood" ELSE "global"
    ELSE "none"

\* clearRect and, without a transparent colour, the white fillRect
Background(cfg) == IF cfg.transparent = NoHex THEN White ELSE Clear

\* the buffer canvas after the frame's drawImage: nearest neighbour (smoothing is
\* off), drawn over the background
BufferPixels(draw, l, cfg, img) ==
    [p \in 0..(l.logicalWidth * l.logicalHeight - 1) |->
        LET x == p % l.logicalWidth
            y == p \div l.logicalWidth
        IN  IF /\ draw.drawn
               /\ x >= draw.dx /\ x < draw.dx + draw.dw
               /\ y >= draw.dy /\ y < draw.dy + draw.dh
            THEN LET src == ImagePixel(img,
                                       draw.sx + ((x - draw.dx) * draw.sw) \div draw.dw,
                                       draw.sy + ((y - draw.dy) * draw.sh) \div draw.dh)
                 IN  IF src.a = 0 THEN Background(cfg) ELSE src
            ELSE Background(cfg)]

\* applyFloodFill: the seeds, then the while loop to its end
RECURSIVE FloodRun(_, _, _, _, _, _)
FloodRun(fl, width, height, targetRGB, keyColor, thresholdSq) ==
    IF fl.head >= Len(fl.queue) THEN fl.data
    ELSE FloodRun(FloodIterate(fl, width, height, targetRGB, keyColor, thresholdSq),
                  width, height, targetRGB, keyColor, thresholdSq)

applyFloodFill(data, width, height, targetRGB, keyColor, thresholdSq) ==
    FloodRun(FloodStart(data, width, height, targetRGB, thresholdSq),
             width, height, targetRGB, keyColor, thresholdSq)

\* the buffer canvas as it is handed on: after the chroma key, if any
FramePixels(draw, l, cfg, img) ==
    LET data == BufferPixels(draw, l, cfg, img)
    IN  IF KeyingOf(l, cfg) = "flood"
        THEN applyFloodFill(data, l.logicalWidth, l.logicalHeight,
                            l.transparentRGB, l.keyColor, l.thresholdSq)
        ELSE IF KeyingOf(l, cfg) = "global"
        THEN GlobalKeyLoop(data, 0, l.transparentRGB, l.keyColor, l.thresholdSq)
        ELSE data

\* the encoder copies a width x height rectangle out of the context it is handed
\* (copy: true); what it does with an empty rectangle is its own affair
AddFrameAccepts(g) ==
    IF g.width = 0 \/ g.height = 0 THEN Answers("emptyFrame") ELSE {TRUE}

\* one iteration of the render loop: compose the frame and submit it
RenderFrame ==
    /\ pc = "render"
    /\ loc.ri <= Len(loc.validFrameCoordinates)
    /\ LET f == loc.validFrameCoordinates[loc.ri]
           draw == FrameDraw(f, loc, config)
           keying == KeyingOf(loc, config)
           emptyBuffer == loc.logicalWidth = 0 \/ loc.logicalHeight = 0
           viaOutput == loc.resized /\ loc.outputCtx
           frame == [originalIndex |-> f.originalIndex,
                     background |-> IF config.transparent = NoHex THEN "white" ELSE "clear",
                     draw |-> draw,
                     keying |-> keying,
                     source |-> IF viaOutput THEN "output" ELSE "buffer",
                     smoothing |-> viaOutput /\ loc.smoothing,
                     width |-> gif.width, height |-> gif.height,
                     delay |-> gif.delay]
           bufferDraws == IF draw.drawn THEN 1 ELSE 0
       IN  IF keying # "none" /\ emptyBuffer
           THEN \* getImageData of an empty rectangle throws
                /\ Reject("IndexSizeError")
                /\ draws' = draws + bufferDraws
                /\ UNCHANGED <<gif, loc, platform>>
           ELSE IF viaOutput /\ emptyBuffer
           THEN \* drawImage of a canvas without pixels throws
                /\ Reject("InvalidStateError")
                /\ draws' = draws + bufferDraws
                /\ UNCHANGED <<gif, loc, platform>>
           ELSE \E accepted \in AddFrameAccepts(gif) :
                /\ draws' = draws + bufferDraws + (IF viaOutput THEN 1 ELSE 0)
                /\ platform' = IF gif.width = 0 \/ gif.height = 0
                               THEN Remember("emptyFrame", accepted) ELSE platform
                /\ IF accepted
                   THEN /\ gif' = [gif EXCEPT !.frames = Append(@, frame)]
                        /\ loc' = [loc EXCEPT !.ri = @ + 1]
                        /\ UNCHANGED <<pc, outcome>>
                   ELSE /\ Reject("IndexSizeError")
                        /\ UNCHANGED <<gif, loc>>
    /\ UNCHANGED <<config, image, canvases, run, first, lab, dim, ui>>

\* faulty variant: render() is reached before the loop has submitted every frame
StartRenderMut ==
    /\ pc = "render"
    /\ gif' = [gif EXCEPT !.handlers = {"progress", "finished"}, !.rendering = TRUE]
    /\ pc' = "encoding"
    /\ UNCHANGED <<config, image, platform, loc, canvases, draws, outcome, run, first,
                   lab, dim, ui>>

\* after the loop: gif.on('progress'), gif.on('finished'), gif.render()
StartRender ==
    /\ pc = "render"
    /\ loc.ri > Len(loc.validFrameCoordinates)
    /\ gif' = [gif EXCEPT !.handlers = {"progress", "finished"}, !.rendering = TRUE]
    /\ pc' = "encoding"
    /\ UNCHANGED <<config, image, platform, loc, canvases, draws, outcome, run, first,
                   lab, dim, ui>>

MaxProgress == 2

\* no App around the code under study
UiIdle == [idle |-> TRUE]

\* the progress callback handleExport passes to generateGif
OnProgress(state, pct) ==
    IF state = UiIdle THEN state ELSE [state EXCEPT !.processingState.progress = pct]

\* the encoder reports progress: onProgress(Math.round(p * 100))
EncoderProgress ==
    /\ pc = "encoding"
    /\ "progress" \in gif.handlers
    /\ gif.progress < MaxProgress
    /\ gif' = [gif EXCEPT !.progress = @ + 1]
    /\ ui' = OnProgress(ui, gif.progress + 1)
    /\ UNCHANGED <<config, image, platform, pc, loc, canvases, draws, outcome, run, first,
                   lab, dim>>

\* the encoder fires 'finished': resolve(blob)
EncoderFinished ==
    /\ pc = "encoding"
    /\ "finished" \in gif.handlers
    /\ outcome' = Resolved
    /\ pc' = "done"
    /\ UNCHANGED <<config, image, platform, loc, canvases, draws, gif, run, first,
                   lab, dim, ui>>

\* generateGif is called again with the same image, config and dimensions
NoResult == [outcome |-> Pending, frames |-> <<>>, canvases |-> <<>>]

\* faulty variant: the second call goes on with the first call's encoder
RerunMut ==
    /\ pc = "done"
    /\ run = 1
    /\ first' = [outcome |-> outcome, frames |-> gif.frames, canvases |-> canvases]
    /\ run' = 2
    /\ pc' = "start"
    /\ loc' = LocInit
    /\ gif' = [gif EXCEPT !.handlers = {}, !.rendering = FALSE, !.progress = 0]
    /\ canvases' = <<>>
    /\ draws' = 0
    /\ outcome' = Pending
    /\ UNCHANGED <<config, image, platform, lab, dim, ui>>

Rerun ==
    /\ pc = "done"
    /\ run = 1
    /\ first' = [outcome |-> outcome, frames |-> gif.frames, canvases |-> canvases]
    /\ run' = 2
    /\ pc' = "start"
    /\ loc' = LocInit
    /\ gif' = GifInit
    /\ canvases' = <<>>
    /\ draws' = 0
    /\ outcome' = Pending
    /\ UNCHANGED <<config, image, platform, lab, dim, ui>>

PlatformInit == [name \in {"analysis", "buffer", "output", "emptyFrame"} |-> "unknown"]

(***************************************************************************)
(* The bitmap bench: applyFloodFill (seeding, then one action per turn of  *)
(* its while loop), the global keying loop and getContentBoundingBox, each *)
(* applied to the same small bitmap with the thresholds generateGif        *)
(* derives from the transparent colour and the tolerance.                  *)
(***************************************************************************)
MaxW == 3

MaxH == 3

MaxFg == 3

\* base colour and the colour of the few pixels that differ from it
Palettes == {<<White, Red>>, <<Red, White>>, <<Red, NearWhite>>, <<White, Clear>>,
             <<Clear, Red>>, <<Red, Clear>>}

Bitmap(width, height, palette, inked) ==
    [width |-> width, height |-> height,
     data |-> [p \in 0..(width * height - 1) |->
                 IF p \in inked THEN palette[2] ELSE palette[1]]]

\* a transparent 7 x 6 bitmap with the single opaque pixel (5, 5)
Dot == Bitmap(7, 6, <<Clear, Red>>, {5 * 7 + 5})

LabTargets ==
    {[transparent |-> NoHex, tolerance |-> 0],
     [transparent |-> HexWhite, tolerance |-> 0],
     [transparent |-> HexWhite, tolerance |-> InitialTolerance]}

LabIdle == [pc |-> "idle"]

NoFlood == [data |-> <<>>, visited |-> <<>>, queue |-> <<>>, head |-> 0]

LabStart(bitmap, target) ==
    LET transparentRGB == IF target.transparent # NoHex
                          THEN hexToRgb(target.transparent) ELSE NoColor
    IN  [pc |-> IF transparentRGB # NoColor THEN "seed" ELSE "box",
         width |-> bitmap.width, height |-> bitmap.height, original |-> bitmap.data,
         transparentRGB |-> transparentRGB,
         keyColor |-> IF transparentRGB # NoColor
                      THEN KeyColorFor(transparentRGB) ELSE NoColor,
         thresholdSq |-> IF transparentRGB # NoColor
                         THEN ThresholdSq(target.tolerance) ELSE 0,
         fl |-> NoFlood, flood |-> <<>>, global |-> <<>>, bbox |-> NoBox]

\* a frame's pixels are read back and handed to the keying code
LabLoad ==
    /\ lab.pc = "idle"
    /\ \E target \in LabTargets, width \in 1..MaxW, height \in 1..MaxH,
          palette \in Palettes :
         \E inked \in {s \in SUBSET (0..(width * height - 1)) : Cardinality(s) <= MaxFg} :
            lab' = LabStart(Bitmap(width, height, palette, inked), target)
    /\ UNCHANGED <<exportVars, dim, ui>>

\* applyFloodFill up to its while loop: visited, queue and the border seeds
LabSeed ==
    /\ lab.pc = "seed"
    /\ lab' = [lab EXCEPT !.fl = FloodStart(lab.original, lab.width, lab.height,
                                            lab.transparentRGB, lab.thresholdSq),
                          !.pc = "flood"]
    /\ UNCHANGED <<exportVars, dim, ui>>

LabFloodStep ==
    /\ lab.pc = "flood"
    /\ lab.fl.head < Len(lab.fl.queue)
    /\ lab' = [lab EXCEPT !.fl = FloodIterate(lab.fl, lab.width, lab.height,
                                              lab.transparentRGB, lab.keyColor,
                                              lab.thresholdSq)]
    /\ UNCHANGED <<exportVars, dim, ui>>

\* the while loop ends; the data array is what putImageData writes back
LabFloodDone ==
    /\ lab.pc = "flood"
    /\ lab.fl.head >= Len(lab.fl.queue)
    /\ lab' = [lab EXCEPT !.flood = lab.fl.data, !.pc = "global"]
    /\ UNCHANGED <<exportVars, dim, ui>>

LabGlobal ==
    /\ lab.pc = "global"
    /\ lab' = [lab EXCEPT !.global = GlobalKeyLoop(lab.original, 0, lab.transparentRGB,
                                                   lab.keyColor, lab.thresholdSq),
                          !.pc = "box"]
    /\ UNCHANGED <<exportVars, dim, ui>>

LabBox ==
    /\ lab.pc = "box"
    /\ lab' = [lab EXCEPT !.bbox = getContentBoundingBox(lab.original, lab.width,
                                                         lab.height, lab.transparentRGB,
                                                         lab.thresholdSq),
                          !.pc = "done"]
    /\ UNCHANGED <<exportVars, dim, ui>>

(***************************************************************************)
(* The canvas bench: the dimension calculation of generateGif on canvases  *)
(* around and above 1024 px.                                               *)
(***************************************************************************)
MaxOver == 100

DimWidths == {400, 800, 1000, 1024} \cup (1025..(1024 + MaxOver))

DimHeights == {300, 500, 600, 1200}

DimIdle == [pc |-> "idle"]

DimStart(finalWidth, finalHeight, scaleHalves, maxResolution1024) ==
    [pc |-> "logical", finalWidth |-> finalWidth, finalHeight |-> finalHeight,
     scaleHalves |-> scaleHalves, maxResolution1024 |-> maxResolution1024,
     logicalWidth |-> 0, logicalHeight |-> 0,
     outputWidth |-> 0, outputHeight |-> 0, resized |-> FALSE]

DimLogical ==
    /\ dim.pc = "logical"
    /\ dim' = [dim EXCEPT !.logicalWidth = ScaleFloor(dim.finalWidth, dim.scaleHalves),
                          !.logicalHeight = ScaleFloor(dim.finalHeight, dim.scaleHalves),
                          !.pc = "output"]
    /\ UNCHANGED <<exportVars, lab, ui>>

DimOutput ==
    /\ dim.pc = "output"
    /\ LET out == OutputDims(dim.logicalWidth, dim.logicalHeight, dim.maxResolution1024)
       IN  dim' = [dim EXCEPT !.outputWidth = out.outputWidth,
                              !.outputHeight = out.outputHeight,
                              !.resized = out.resized,
                              !.pc = "done"]
    /\ UNCHANGED <<exportVars, lab, ui>>

(***************************************************************************)
(* The App component: config under the grid controls, the file upload and  *)
(* auto-detect, and handleExport around generateGif.                       *)
(***************************************************************************)
InitialRows == 4

InitialCols == 4

InitialTotalFrames == 16

INITIAL_CONFIG ==
    [rows |-> InitialRows, cols |-> InitialCols, totalFrames |-> InitialTotalFrames,
     excludedFrames |-> {}, readOrder |-> "row-major",
     fps |-> InitialFps, scaleHalves |-> 2,
     transparent |-> NoHex, tolerance |-> InitialTolerance, useFloodFill |-> TRUE,
     autoAlign |-> FALSE, alignMode |-> "center",
     crop |-> Crop(0, 0, 0, 0), maxResolution1024 |-> FALSE]

\* the text of a number input: empty, or the decimal digits of a number
EmptyText == <<>>

toString(value) == <<value>>

ToNumber(text) == text[1]

\* processingState; error "" is no error
Processing(status, progress, error) ==
    [status |-> status, progress |-> progress, error |-> error]

DetectFailed == "AI detection failed"

GenericFailure == "GIF generation failed"

\* the App after mounting.  requests counts the analyzeSpriteSheet calls in
\* flight, timer is the pending setTimeout of handleExport, focus the number
\* input the caret is in, and userSet the keys whose value the user has entered
\* since the last upload.
Mounted(imageUrl) ==
    [imageUrl |-> imageUrl,
     processingState |-> Processing("idle", 0, ""),
     localValue |-> [rows |-> toString(INITIAL_CONFIG.rows),
                     cols |-> toString(INITIAL_CONFIG.cols)],
     focus |-> "none", requests |-> 0, stale |-> 0, timer |-> FALSE, userSet |-> {}]

GridKeys == {"rows", "cols"}

updateConfig(prev, key, value) ==
    LET next == [prev EXCEPT ![key] = value]
    IN  IF key \in GridKeys /\ prev.totalFrames = prev.rows * prev.cols
        THEN [next EXCEPT !.totalFrames = next.rows * next.cols]
        ELSE next

\* NumberInput's effect: a changed value replaces the text
SyncLocalValue(localValue, prev, next) ==
    [key \in GridKeys |->
        IF next[key] # prev[key] THEN toString(next[key]) ELSE localValue[key]]

MaxGrid == 4

TypedTexts == {EmptyText} \cup {toString(n) : n \in 0..MaxGrid}

\* the caret enters a number input
FocusInput(key) ==
    /\ ui.focus = "none"
    /\ ui' = [ui EXCEPT !.focus = key]
    /\ UNCHANGED <<exportVars, lab, dim>>

\* NumberInput.handleChange with the text newVal
handleChange(key, newVal) ==
    /\ ui.focus = key
    /\ newVal # ui.localValue[key]
    /\ LET next == IF newVal # EmptyText
                   THEN updateConfig(config, key, ToNumber(newVal))
                   ELSE config
       IN  /\ config' = next
           /\ ui' = [ui EXCEPT
                       !.localValue = SyncLocalValue([@ EXCEPT ![key] = newVal],
                                                     config, next),
                       !.userSet = IF newVal # EmptyText THEN @ \cup {key} ELSE @]
    /\ UNCHANGED <<image, platform, pc, loc, canvases, draws, gif, outcome, run, first,
                   lab, dim>>

\* min of the two number inputs
MinValue == 1

\* NumberInput.handleBlur
handleBlur(key) ==
    /\ ui.focus = key
    /\ IF ui.localValue[key] = EmptyText
       THEN /\ ui' = [ui EXCEPT !.localValue[key] = toString(config[key]),
                                !.focus = "none"]
            /\ UNCHANGED config
       ELSE LET value == ToNumber(ui.localValue[key])
                num == IF value < MinValue THEN MinValue ELSE value
                next == updateConfig(config, key, num)
            IN  /\ config' = next
                /\ ui' = [ui EXCEPT
                            !.localValue = SyncLocalValue([@ EXCEPT ![key] = toString(num)],
                                                          config, next),
                            !.focus = "none",
                            !.userSet = @ \cup {key}]
    /\ UNCHANGED <<image, platform, pc, loc, canvases, draws, gif, outcome, run, first,
                   lab, dim>>

\* the positions the slider is moved to: either end, and one short of the maximum
SlidePositions(cfg) ==
    {1, cfg.rows * cfg.cols - 1, cfg.rows * cfg.cols} \cap (1..(cfg.rows * cfg.cols))

\* the sequence-length slider, min 1 and max rows * cols
SlideTotalFrames(value) ==
    /\ ui.focus = "none"
    /\ value # config.totalFrames
    /\ config' = updateConfig(config, "totalFrames", value)
    /\ ui' = [ui EXCEPT !.userSet = @ \cup {"totalFrames"}]
    /\ UNCHANGED <<image, platform, pc, loc, canvases, draws, gif, outcome, run, first,
                   lab, dim>>

MaxToggle == 1

\* a click on the cell with sequence index index of SpriteCanvas
handleToggleFrame(index) ==
    /\ ui.focus = "none"
    /\ ui.imageUrl
    /\ config.cols > 0 /\ config.rows > 0
    /\ index < config.rows * config.cols
    /\ index < config.totalFrames
    /\ config' = [config EXCEPT !.excludedFrames =
                     IF index \in @ THEN @ \ {index} ELSE @ \cup {index}]
    /\ UNCHANGED <<image, platform, pc, loc, canvases, draws, gif, outcome, run, first,
                   lab, dim, ui>>

\* handleFileChange, when the reader has loaded the file
handleFileChange ==
    /\ ui.focus = "none"
    /\ config' = INITIAL_CONFIG
    /\ ui' = [ui EXCEPT !.imageUrl = TRUE,
                        !.processingState = Processing("idle", 0, ""),
                        !.localValue = SyncLocalValue(@, config, INITIAL_CONFIG),
                        !.stale = ui.requests,
                        !.userSet = {}]
    /\ UNCHANGED <<image, platform, pc, loc, canvases, draws, gif, outcome, run, first,
                   lab, dim>>

MaxRequests == 1

\* handleAutoDetect up to the await
handleAutoDetect ==
    /\ ui.focus = "none"
    /\ ui.imageUrl
    /\ ui.processingState.status # "analyzing"
    /\ ui.requests < MaxRequests
    /\ ui' = [ui EXCEPT !.processingState = Processing("analyzing", 0, ""),
                        !.requests = @ + 1]
    /\ UNCHANGED <<exportVars, lab, dim>>

\* a key the answer of analyzeSpriteSheet leaves out
Missing == -1

DetectedSides == {Missing, 0, 1, MaxGrid}

DetectedFrames == {Missing, 0, MaxGrid, MaxGrid * MaxGrid + 1}

\* a ?? b
Coalesce(a, b) == IF a # Missing THEN a ELSE b

\* a || b
OrElse(a, b) == IF a # Missing /\ a # 0 THEN a ELSE b

DetectedConfig(prev, result) ==
    [prev EXCEPT
       !.rows = Coalesce(result.rows, prev.rows),
       !.cols = Coalesce(result.cols, prev.cols),
       !.totalFrames = Coalesce(result.totalFrames,
                                OrElse(result.rows, prev.rows)
                                  * OrElse(result.cols, prev.cols))]

\* the requests that may settle next, told apart by whether the image they were
\* made for has been replaced since: TRUE for one made for an earlier image
Settling(state) ==
    {late \in BOOLEAN : IF late THEN state.stale > 0 ELSE state.requests > state.stale}

\* the count of requests made for an earlier image, one of them having settled
Settled(state, late) == IF late THEN state.stale - 1 ELSE state.stale

\* handleAutoDetect after the await, analyzeSpriteSheet having answered
AutoDetectResolved ==
    /\ ui.requests > 0
    /\ \E rows \in DetectedSides, cols \in DetectedSides, totalFrames \in DetectedFrames,
          late \in Settling(ui) :
         LET next == DetectedConfig(config, [rows |-> rows, cols |-> cols,
                                             totalFrames |-> totalFrames])
         IN  /\ config' = next
             /\ ui' = [ui EXCEPT !.processingState = Processing("idle", 0, ""),
                                 !.localValue = SyncLocalValue(@, config, next),
                                 !.requests = @ - 1,
                                 !.stale = Settled(ui, late)]
    /\ UNCHANGED <<image, platform, pc, loc, canvases, draws, gif, outcome, run, first,
                   lab, dim>>

\* handleAutoDetect's catch, analyzeSpriteSheet having thrown
AutoDetectRejected ==
    /\ ui.requests > 0
    /\ \E late \in Settling(ui) :
         ui' = [ui EXCEPT !.processingState = Processing("idle", 0, DetectFailed),
                          !.requests = @ - 1,
                          !.stale = Settled(ui, late)]
    /\ UNCHANGED <<exportVars, lab, dim>>

\* the App with an image loaded: its config and image are state of the component,
\* apart from the arguments a pending generateGif call was given
Loaded(cfg, img) ==
    [Mounted(TRUE) EXCEPT !.localValue = [rows |-> toString(cfg.rows),
                                          cols |-> toString(cfg.cols)]]
        @@ [config |-> cfg, image |-> img]

\* handleExport up to the call of generateGif, which is given the config and the
\* image of this render of the App: img.decode() succeeds or throws
handleExport ==
    /\ pc = "idle"
    /\ ui.imageUrl
    /\ ui.processingState.status # "rendering"
    /\ ui' = [ui EXCEPT !.processingState = Processing("rendering", 0, "")]
    /\ config' = ui.config
    /\ image' = ui.image
    /\ loc' = LocInit
    /\ gif' = GifInit
    /\ canvases' = <<>>
    /\ draws' = 0
    /\ \/ pc' = "start" /\ outcome' = Pending
       \/ pc' = "done" /\ outcome' = Rejected("EncodingError")
    /\ UNCHANGED <<platform, run, first, lab, dim>>

CompletedProgress == 100

\* handleExport after the await: the download, then 'completed' and the timer
ExportCompleted ==
    /\ pc = "done"
    /\ outcome = Resolved
    /\ ui' = [ui EXCEPT !.processingState = Processing("completed", CompletedProgress, ""),
                        !.timer = TRUE]
    /\ pc' = "idle"
    /\ UNCHANGED <<config, image, platform, loc, canvases, draws, gif, outcome, run, first,
                   lab, dim>>

\* the rejections that are strings, not Error objects
RejectedStrings == {"Could not create canvas context"}

\* e.message || the generic text
CaughtMessage(error) == IF error \in RejectedStrings THEN GenericFailure ELSE error

\* handleExport's catch
ExportCaught ==
    /\ pc = "done"
    /\ outcome.state = "rejected"
    /\ ui' = [ui EXCEPT !.processingState = Processing("idle", 0, CaughtMessage(outcome.error))]
    /\ pc' = "idle"
    /\ UNCHANGED <<config, image, platform, loc, canvases, draws, gif, outcome, run, first,
                   lab, dim>>

ExportTimeoutMut ==
    /\ ui.timer
    /\ ui' = [ui EXCEPT !.timer = FALSE]
    /\ UNCHANGED <<exportVars, lab, dim>>

\* the timer of handleExport fires
ExportTimeout ==
    /\ ui.timer
    /\ ui' = [ui EXCEPT !.processingState = Processing("idle", 0, ""), !.timer = FALSE]
    /\ UNCHANGED <<exportVars, lab, dim>>

\* handleFileChange in the App that may have a render pending; the file chosen
\* holds the poster
FileLoaded ==
    /\ ui' = [ui EXCEPT !.imageUrl = TRUE,
                        !.image = Poster,
                        !.processingState = Processing("idle", 0, ""),
                        !.config = INITIAL_CONFIG,
                        !.localValue = SyncLocalValue(@, ui.config, INITIAL_CONFIG),
                        !.stale = ui.requests,
                        !.userSet = {}]
    /\ UNCHANGED <<exportVars, lab, dim>>

\* handleAutoDetect up to the await, in the App that may have a render pending
DetectStarted ==
    /\ ui.imageUrl
    /\ ui.processingState.status # "analyzing"
    /\ ui.requests < MaxRequests
    /\ ui' = [ui EXCEPT !.processingState = Processing("analyzing", 0, ""),
                        !.requests = @ + 1]
    /\ UNCHANGED <<exportVars, lab, dim>>

\* the grids analyzeSpriteSheet answers here; they divide both images
AnsweredSides == {Missing, 2}

AnsweredFrames == {Missing, 1}

\* handleAutoDetect after the await, in the App that may have a render pending
DetectAnswered ==
    /\ ui.requests > 0
    /\ \E rows \in AnsweredSides, cols \in AnsweredSides, totalFrames \in AnsweredFrames,
          late \in Settling(ui) :
         LET next == DetectedConfig(ui.config, [rows |-> rows, cols |-> cols,
                                                totalFrames |-> totalFrames])
         IN  ui' = [ui EXCEPT !.processingState = Processing("idle", 0, ""),
                              !.config = next,
                              !.localValue = SyncLocalValue(@, ui.config, next),
                              !.requests = @ - 1,
                              !.stale = Settled(ui, late)]
    /\ UNCHANGED <<exportVars, lab, dim>>

ExportInit(seqs, opts) ==
    /\ \E seq \in seqs, opt \in opts :
         /\ opt.img.width % seq.cols = 0
         /\ opt.img.height % seq.rows = 0
         /\ config = MakeConfig(seq, opt)
         /\ image = opt.img
    /\ platform = PlatformInit
    /\ pc = "start"
    /\ loc = LocInit
    /\ canvases = <<>>
    /\ draws = 0
    /\ gif = GifInit
    /\ outcome = Pending
    /\ run = 1
    /\ first = NoResult
    /\ lab = LabIdle
    /\ dim = DimIdle
    /\ ui = UiIdle

Init == ExportInit(SeqConfigs(MaxRows, MaxCols, MaxExcluded), RenderOptions)

SeqInit == ExportInit(SeqConfigs(SeqMaxRows, SeqMaxCols, SeqMaxExcluded), SeqRenderOptions)

KeyInit == ExportInit(KeySeqs, KeyRenderOptions)

\* no export under way: the benches run on their own
ExportIdle ==
    /\ config = [idle |-> TRUE]
    /\ image = [id |-> "none", width |-> 0, height |-> 0]
    /\ platform = PlatformInit
    /\ pc = "idle"
    /\ loc = LocInit
    /\ canvases = <<>>
    /\ draws = 0
    /\ gif = GifInit
    /\ outcome = Pending
    /\ run = 1
    /\ first = NoResult

PixelInit ==
    /\ ExportIdle
    /\ dim = DimIdle
    /\ ui = UiIdle
    /\ \E target \in LabTargets :
         \/ \E width \in 1..MaxW, height \in 1..MaxH, palette \in Palettes :
              \E inked \in {s \in SUBSET (0..(width * height - 1)) : Cardinality(s) <= MaxFg} :
                lab = LabStart(Bitmap(width, height, palette, inked), target)
         \/ lab = LabStart(Dot, target)

\* no frame has been read back yet
FloodInit ==
    /\ ExportIdle
    /\ dim = DimIdle
    /\ ui = UiIdle
    /\ lab = LabIdle

DimInit ==
    /\ ExportIdle
    /\ lab = LabIdle
    /\ ui = UiIdle
    /\ \E finalWidth \in DimWidths, finalHeight \in DimHeights,
          scaleHalves \in ScaleOptions, maxResolution1024 \in BOOLEAN :
         dim = DimStart(finalWidth, finalHeight, scaleHalves, maxResolution1024)

\* the App before any upload, no export under way
UiInit ==
    /\ config = INITIAL_CONFIG
    /\ image = [id |-> "none", width |-> 0, height |-> 0]
    /\ platform = PlatformInit
    /\ pc = "idle"
    /\ loc = LocInit
    /\ canvases = <<>>
    /\ draws = 0
    /\ gif = GifInit
    /\ outcome = Pending
    /\ run = 1
    /\ first = NoResult
    /\ lab = LabIdle
    /\ dim = DimIdle
    /\ ui = Mounted(FALSE)

\* an image is loaded and the user is about to export it
AppInit ==
    /\ \E seq \in SeqConfigs(MaxRows, MaxCols, MaxExcluded), opt \in AppRenderOptions :
         /\ opt.img.width % seq.cols = 0
         /\ opt.img.height % seq.rows = 0
         /\ config = MakeConfig(seq, opt)
         /\ image = opt.img
    /\ platform = PlatformInit
    /\ pc = "idle"
    /\ loc = LocInit
    /\ canvases = <<>>
    /\ draws = 0
    /\ gif = GifInit
    /\ outcome = Pending
    /\ run = 1
    /\ first = NoResult
    /\ lab = LabIdle
    /\ dim = DimIdle
    /\ ui = Loaded(config, image)

\* the exports that auto-align their frames
AlignInit == Init /\ config.autoAlign

\* one sheet is loaded with its grid set, and the session goes on from there
RaceInit ==
    /\ \E seq \in KeySeqs, opt \in SeqRenderOptions :
         /\ opt.img = Sheet
         /\ config = MakeConfig(seq, opt)
         /\ image = opt.img
    /\ platform = PlatformInit
    /\ pc = "idle"
    /\ loc = LocInit
    /\ canvases = <<>>
    /\ draws = 0
    /\ gif = GifInit
    /\ outcome = Pending
    /\ run = 1
    /\ first = NoResult
    /\ lab = LabIdle
    /\ dim = DimIdle
    /\ ui = Loaded(config, image)

Next ==
    \/ CheckCrop
    \/ Sequence
    \/ PrepTransparency
    \/ AnalysisSetup
    \/ AnalyzeFrame
    \/ AnalysisDone
    \/ Dimensions
    \/ GifSetup
    \/ CanvasSetup
    \/ RenderFrame
    \/ StartRender
    \/ EncoderProgress
    \/ EncoderFinished

NextTwice == Next \/ Rerun

PixelNext ==
    \/ LabSeed
    \/ LabFloodStep
    \/ LabFloodDone
    \/ LabGlobal
    \/ LabBox

DimNext ==
    \/ DimLogical
    \/ DimOutput

UiNext ==
    \/ \E key \in GridKeys : FocusInput(key)
    \/ \E key \in GridKeys, newVal \in TypedTexts : handleChange(key, newVal)
    \/ \E key \in GridKeys : handleBlur(key)
    \/ \E value \in SlidePositions(config) : SlideTotalFrames(value)
    \/ \E index \in 0..(MaxToggle - 1) : handleToggleFrame(index)
    \/ handleFileChange
    \/ handleAutoDetect
    \/ AutoDetectResolved
    \/ AutoDetectRejected

AppNext ==
    \/ handleExport
    \/ Next
    \/ ExportCompleted
    \/ ExportCaught
    \/ ExportTimeout

RaceNext ==
    \/ AppNext
    \/ FileLoaded
    \/ DetectStarted
    \/ DetectAnswered
    \/ AutoDetectRejected

Spec == Init /\ [][Next]_vars

AlignSpec == AlignInit /\ [][Next]_vars

SeqSpec == SeqInit /\ [][Next]_vars

TwiceSpec == SeqInit /\ [][NextTwice]_vars

KeySpec == KeyInit /\ [][Next]_vars

PixelSpec == PixelInit /\ [][PixelNext]_vars

DimSpec == DimInit /\ [][DimNext]_vars

UiSpec == UiInit /\ [][UiNext]_vars

AppSpec == AppInit /\ [][AppNext]_vars

\* the continuations of handleExport are microtasks of a settled promise and the
\* timer is due after 2 seconds: each runs once it can
LiveAppSpec ==
    /\ AppInit
    /\ [][AppNext]_vars
    /\ WF_vars(ExportCompleted)
    /\ WF_vars(ExportCaught)
    /\ WF_vars(ExportTimeout)

RaceSpec == RaceInit /\ [][RaceNext]_vars

\* the while loop of applyFloodFill is synchronous code: once entered it takes
\* its next turn, or leaves, without waiting for anything
FloodSpec ==
    /\ FloodInit
    /\ [][LabLoad \/ PixelNext]_vars
    /\ WF_vars(LabFloodStep)
    /\ WF_vars(LabFloodDone)

(***************************************************************************)
(* PROPERTIES                                                              *)
(***************************************************************************)
OriginalIndices(frames) == [k \in 1..Len(frames) |-> frames[k].originalIndex]

Cells(frames) == [k \in 1..Len(frames) |-> <<frames[k].r, frames[k].c>>]

\* the sequencer has run in this call of generateGif
Sequenced == pc \notin {"start", "sequence"} /\ outcome # Rejected("crop too large")

\* C1: every export that resolves has submitted exactly
\* totalFrames - |{e in excludedFrames : e < totalFrames}| frames, the count the
\* settings panel displays.
C1_FrameCount ==
    outcome.state = "resolved" =>
        Len(gif.frames) = config.totalFrames
                          - Cardinality({e \in config.excludedFrames : e < config.totalFrames})

\* C1: an export of a grid with fewer cells than totalFrames resolves with fewer
\* frames than totalFrames, nothing being excluded.
C1_FewerCellsThanFrames ==
    /\ outcome.state = "resolved"
    /\ config.totalFrames > config.rows * config.cols
    /\ config.excludedFrames = {}
    /\ Len(gif.frames) = config.rows * config.cols

TwoByThree ==
    /\ config.rows = 2
    /\ config.cols = 3
    /\ config.totalFrames = 6
    /\ config.excludedFrames = {}

\* C2, as stated: on the full 2 x 3 grid the sequencer emits the original indices
\* 0,1,2,3,4,5 in row-major order and 0,3,1,4,2,5 in column-major order.
C2_AsStated ==
    (TwoByThree /\ Sequenced) =>
        OriginalIndices(loc.validFrameCoordinates) =
            IF config.readOrder = "column-major"
            THEN <<0, 3, 1, 4, 2, 5>> ELSE <<0, 1, 2, 3, 4, 5>>

\* C2, amended: on the full 2 x 3 grid the sequencer emits the original indices
\* 0,1,2,3,4,5 in both read orders (c*rows+r numbers the cells in column-major
\* traversal order); what differs is the cell each index names: row by row in
\* row-major order, column by column in column-major order.  The preview's
\* index list and the frames of a resolved export carry the same indices.
C2_GridOrder ==
    (TwoByThree /\ Sequenced) =>
        /\ OriginalIndices(loc.validFrameCoordinates) = <<0, 1, 2, 3, 4, 5>>
        /\ Cells(loc.validFrameCoordinates) =
              IF config.readOrder = "column-major"
              THEN <<<<0, 0>>, <<1, 0>>, <<0, 1>>, <<1, 1>>, <<0, 2>>, <<1, 2>>>>
              ELSE <<<<0, 0>>, <<0, 1>>, <<0, 2>>, <<1, 0>>, <<1, 1>>, <<1, 2>>>>
        /\ getValidFrameIndices(config) = <<0, 1, 2, 3, 4, 5>>
        /\ outcome.state = "resolved" => OriginalIndices(gif.frames) = <<0, 1, 2, 3, 4, 5>>

\* C2: a column-major export of the full 2 x 3 grid has resolved with six frames.
C2_ColumnMajorExported ==
    /\ TwoByThree
    /\ config.readOrder = "column-major"
    /\ outcome.state = "resolved"
    /\ Len(gif.frames) = 6

\* C3: the emitted indices are the traversal-order indices below totalFrames with
\* the excluded ones deleted and the order of the others kept; 2 x 2 row-major
\* with totalFrames 4 and index 2 excluded emits 0,1,3.
C3_ExclusionOnlyDeletes ==
    Sequenced =>
        LET all == OriginalIndices(ValidFrameCoordinates([config EXCEPT !.excludedFrames = {}]))
            kept(i) == i \notin config.excludedFrames
            emitted == OriginalIndices(loc.validFrameCoordinates)
        IN  /\ emitted = SelectSeq(all, kept)
            /\ (/\ config.rows = 2
                /\ config.cols = 2
                /\ config.readOrder = "row-major"
                /\ config.totalFrames = 4
                /\ config.excludedFrames = {2}) => emitted = <<0, 1, 3>>

\* C3: the 2 x 2 row-major export with index 2 excluded has resolved with three frames.
C3_MiddleExcluded ==
    /\ config.rows = 2
    /\ config.cols = 2
    /\ config.readOrder = "row-major"
    /\ config.totalFrames = 4
    /\ config.excludedFrames = {2}
    /\ outcome.state = "resolved"
    /\ Len(gif.frames) = 3

\* the pixels of the bench's bitmap that match the target colour
LabMatching ==
    {p \in DOMAIN lab.original :
        \/ lab.original[p].a = 0
        \/ DistSq(lab.original[p], lab.transparentRGB) <= lab.thresholdSq}

LabBorder ==
    {p \in DOMAIN lab.original :
        \/ p % lab.width \in {0, lab.width - 1}
        \/ p \div lab.width \in {0, lab.height - 1}}

Adjacent(p, q, width) ==
    \/ p \div width = q \div width /\ (p - q = 1 \/ q - p = 1)
    \/ p - q = width
    \/ q - p = width

RECURSIVE Spread(_, _, _)
Spread(from, within, width) ==
    LET more == from \cup {q \in within : \E p \in from : Adjacent(p, q, width)}
    IN  IF more = from THEN from ELSE Spread(more, within, width)

\* the matching pixels in regions that touch no edge: every way out of such a
\* region crosses a non-matching (hence opaque) pixel
LabEnclosed == LabMatching \ Spread(LabMatching \cap LabBorder, LabMatching, lab.width)

\* C4: every pixel of a matching region that touches no edge and is enclosed by
\* non-matching pixels is left as it was by the flood fill and is turned into the
\* key colour by the global loop run on the same bitmap.
C4_EnclosedRegion ==
    lab.transparentRGB # NoColor =>
        /\ lab.pc \in {"global", "box", "done"} =>
              \A p \in LabEnclosed : lab.flood[p] = lab.original[p]
        /\ lab.pc \in {"box", "done"} =>
              \A p \in LabEnclosed : lab.global[p] = KeyPixel(lab.keyColor)

\* C4: both keyings have run on a bitmap with an enclosed opaque matching pixel whose
\* flood fill keyed pixels elsewhere.
C4_EnclosedSeen ==
    /\ lab.pc = "done"
    /\ lab.transparentRGB # NoColor
    /\ \E p \in LabEnclosed : lab.original[p].a = 255
    /\ \E q \in DOMAIN lab.original : lab.flood[q] # lab.original[q]

\* content as C5 states it: alpha > 0 and, with a target colour, a squared
\* distance to it above thresholdSq
LabContent ==
    {p \in DOMAIN lab.original :
        /\ lab.original[p].a > 0
        /\ lab.transparentRGB # NoColor =>
              DistSq(lab.original[p], lab.transparentRGB) > lab.thresholdSq}

Least(S) == CHOOSE m \in S : \A n \in S : m <= n

Greatest(S) == CHOOSE m \in S : \A n \in S : m >= n

\* C5: getContentBoundingBox returns null exactly when the bitmap has no content
\* pixel, and otherwise the box spanned by the least and greatest x and y of the
\* content pixels with width = maxX-minX+1 and height = maxY-minY+1; the single
\* content pixel (5,5) gives the 1 x 1 box at (5,5).
C5_BoundingBox ==
    lab.pc = "done" =>
        LET xs == {p % lab.width : p \in LabContent}
            ys == {p \div lab.width : p \in LabContent}
        IN  /\ IF LabContent = {} THEN lab.bbox = NoBox
               ELSE lab.bbox = [found |-> TRUE,
                                minX |-> Least(xs), minY |-> Least(ys),
                                maxX |-> Greatest(xs), maxY |-> Greatest(ys),
                                width |-> Greatest(xs) - Least(xs) + 1,
                                height |-> Greatest(ys) - Least(ys) + 1]
            /\ (lab.width = 7 /\ lab.original = Dot.data) =>
                  /\ lab.bbox.found
                  /\ <<lab.bbox.minX, lab.bbox.minY>> = <<5, 5>>
                  /\ <<lab.bbox.width, lab.bbox.height>> = <<1, 1>>

\* C5: the box of the bitmap whose only content pixel is (5,5) has been computed.
C5_DotBoxed ==
    /\ lab.pc = "done"
    /\ lab.width = 7
    /\ lab.original = Dot.data
    /\ lab.bbox.found
    /\ lab.bbox.maxX = 5
    /\ lab.bbox.maxY = 5

\* C6: with maxResolution1024 and a logical side above 1024 the longer output
\* side is exactly 1024 and neither exceeds 1024; otherwise the output
\* dimensions are the logical ones, the ratio being 1.0.
C6_LongerSideExactly1024 ==
    dim.pc = "done" =>
        IF dim.maxResolution1024 /\ Max(dim.logicalWidth, dim.logicalHeight) > 1024
        THEN /\ Max(dim.outputWidth, dim.outputHeight) = 1024
             /\ dim.outputWidth <= 1024
             /\ dim.outputHeight <= 1024
        ELSE /\ dim.outputWidth = dim.logicalWidth
             /\ dim.outputHeight = dim.logicalHeight
             /\ ~dim.resized

\* C6: a logical canvas 1122 wide, the longer side, has come out 1023 wide.
C6_OnePixelShort ==
    /\ dim.pc = "done"
    /\ dim.maxResolution1024
    /\ dim.logicalWidth = 1122
    /\ dim.logicalHeight < 1122
    /\ dim.outputWidth = 1023

C8_BottomAligned ==
    (config.autoAlign /\ config.alignMode = "bottom") =>
        \A i, j \in 1..Len(gif.frames) :
            (gif.frames[i].draw.drawn /\ gif.frames[j].draw.drawn) =>
                /\ gif.frames[i].draw.dy + gif.frames[i].draw.dh
                      = gif.frames[j].draw.dy + gif.frames[j].draw.dh
                /\ gif.frames[i].draw.dy + gif.frames[i].draw.dh = loc.logicalHeight

\* C8: bottom mode has drawn two frames whose boxes differ in height.
C8_TwoHeights ==
    /\ config.autoAlign
    /\ config.alignMode = "bottom"
    /\ \E i, j \in 1..Len(gif.frames) :
          /\ gif.frames[i].draw.drawn
          /\ gif.frames[j].draw.drawn
          /\ gif.frames[i].draw.dh # gif.frames[j].draw.dh

\* C9: the submitted frames are, in order, the first frames of the sequenced
\* list; render() has started only once every sequenced frame is submitted; and
\* progress is reported only after render() has started.
C9_SubmissionOrder ==
    /\ Len(gif.frames) <= Len(loc.validFrameCoordinates)
    /\ \A i \in 1..Len(gif.frames) :
          gif.frames[i].originalIndex = loc.validFrameCoordinates[i].originalIndex
    /\ gif.rendering => Len(gif.frames) = Len(loc.validFrameCoordinates)
    /\ gif.progress > 0 => gif.rendering

\* C9: progress has been reported for an export of three or more frames.
C9_ProgressAfterFrames ==
    /\ gif.progress = MaxProgress
    /\ gif.rendering
    /\ Len(gif.frames) >= 3

CropTooLarge ==
    \/ image.width \div config.cols - config.crop.left - config.crop.right <= 0
    \/ image.height \div config.rows - config.crop.top - config.crop.bottom <= 0

\* C10: when the cropped frame width or height is <= 0, generateGif rejects with
\* the crop error, and no canvas is created, nothing is drawn, no encoder is made
\* and no frame is submitted.
C10_CropRejectedFirst ==
    CropTooLarge =>
        /\ canvases = <<>>
        /\ draws = 0
        /\ ~gif.created
        /\ gif.frames = <<>>
        /\ pc # "start" => (pc = "done" /\ outcome = Rejected("crop too large"))

\* C10: an export whose crop leaves nothing of the frame has been rejected.
C10_Rejected ==
    /\ CropTooLarge
    /\ pc = "done"
    /\ outcome = Rejected("crop too large")

\* no grid index is both below totalFrames and not excluded
NoneEmittable ==
    \A i \in 0..(config.rows * config.cols - 1) :
        i >= config.totalFrames \/ i \in config.excludedFrames

EmptyRejected ==
    /\ canvases = <<>>
    /\ gif.frames = <<>>
    /\ pc \notin {"start", "sequence"} => (pc = "done" /\ outcome = Rejected("no valid frames"))

\* C11 as stated: if no grid index is both below totalFrames and not excluded,
\* generateGif rejects with the empty-sequence error, no canvas is allocated and
\* no frame is submitted.
C11_AsStated == NoneEmittable => EmptyRejected

\* C11: if the crop leaves a frame of positive width and height and no grid index
\* is both below totalFrames and not excluded, generateGif rejects with the
\* empty-sequence error, no canvas is allocated and no frame is submitted.
C11_EmptySequenceRejected == (NoneEmittable /\ ~CropTooLarge) => EmptyRejected

\* C11: an export with nothing to emit and a sound crop has been rejected.
C11_Rejected ==
    /\ NoneEmittable
    /\ ~CropTooLarge
    /\ pc = "done"
    /\ outcome = Rejected("no valid frames")

\* Math.round(1000 / fps)
RoundedDelay(fps) == (2 * 1000 + fps) \div (2 * fps)

\* C13: every frame of one render is submitted with the same delay, and that
\* delay, the quotient delay[1] / delay[2], equals round(1000 / fps) milliseconds.
C13_RoundedDelay ==
    \A k \in 1..Len(gif.frames) :
        /\ gif.frames[k].delay = gif.frames[1].delay
        /\ gif.frames[k].delay[1] = RoundedDelay(config.fps) * gif.frames[k].delay[2]

\* C13: two frames have been submitted with one delay, which is not a whole
\* number of milliseconds.
C13_FractionalDelay ==
    /\ Len(gif.frames) >= 2
    /\ gif.frames[2].delay = gif.frames[1].delay
    /\ gif.frames[1].delay[1] % gif.frames[1].delay[2] # 0

\* C14: once the user has set rows, cols or totalFrames through the controls, a
\* successful auto-detect result leaves each value the user has set as it was.
C14_UserValuesKept ==
    [][AutoDetectResolved => \A key \in ui.userSet : config'[key] = config[key]]_vars

\* C14: the user has set a value by hand and an auto-detect request is in flight.
C14_DetectAfterUserSet ==
    /\ ui.userSet # {}
    /\ ui.requests > 0
    /\ ui.processingState.status = "analyzing"

\* the fatal failures: invalid crop, empty frame sequence, no working canvas context
FatalErrors == {"crop too large", "no valid frames", "Could not create canvas context"}

\* handleExport has caught a fatal failure of generateGif
FatalCaught ==
    /\ pc = "idle"
    /\ outcome.state = "rejected"
    /\ outcome.error \in FatalErrors

\* C15: when an export has failed fatally, processingState is idle with the
\* message of that failure as its error, and no frame has been submitted.
C15_DescriptiveFailure ==
    FatalCaught =>
        /\ ui.processingState.status = "idle"
        /\ ui.processingState.error = outcome.error
        /\ gif.frames = <<>>

\* C15: the buffer canvas gave no context, and the user is shown the generic text.
C15_GenericShown ==
    /\ FatalCaught
    /\ outcome.error = "Could not create canvas context"
    /\ ui.processingState.error = GenericFailure

\* C16: in every config state the UI operations reach, totalFrames <= rows * cols,
\* and the frame list built from that config holds no index >= totalFrames.
C16_FramesWithinGrid ==
    /\ config.totalFrames <= config.rows * config.cols
    /\ \A k \in 1..Len(ValidFrameCoordinates(config)) :
          ValidFrameCoordinates(config)[k].originalIndex < config.totalFrames

\* C16: with no auto-detect answer since the upload, the grid has been made
\* smaller than the sequence length the user chose.
C16_GridShrunk ==
    /\ "totalFrames" \in ui.userSet
    /\ ui.requests = 0
    /\ ui.processingState.status = "idle"
    /\ config.rows > 0 /\ config.cols > 0
    /\ config.totalFrames > config.rows * config.cols

\* C17: in every config state the number inputs and auto-detect reach,
\* rows > 0 and cols > 0.
C17_PositiveGrid == config.rows > 0 /\ config.cols > 0

\* C17: the user has typed 0 into the rows input and config.rows is 0.
C17_ZeroTyped ==
    /\ ui.focus = "rows"
    /\ ui.localValue.rows = toString(0)
    /\ config.rows = 0
    /\ "rows" \in ui.userSet

\* the pixels a chain of 4-neighbour steps over matching pixels joins to a
\* matching border pixel
LabReached == Spread(LabMatching \cap LabBorder, LabMatching, lab.width)

\* p and q touch at a corner only
Diagonal(p, q, width) ==
    /\ (p \div width) - (q \div width) \in {-1, 1}
    /\ (p % width) - (q % width) \in {-1, 1}

\* C18: applyFloodFill turns into the opaque key colour exactly the pixels that a
\* chain of 4-neighbour steps over matching pixels joins to a matching border pixel,
\* matching being decided on the original values; every other pixel, a matching
\* one that touches that set only at a corner included, is left as it was.
C18_ReachableExactly ==
    (lab.transparentRGB # NoColor /\ lab.pc \in {"global", "box", "done"}) =>
        LET reached == LabReached
        IN  \A p \in DOMAIN lab.original :
                lab.flood[p] = IF p \in reached THEN KeyPixel(lab.keyColor)
                               ELSE lab.original[p]

\* C18: the fill has run on a bitmap with a matching pixel that touches a
\* converted pixel at a corner only, and that pixel has kept its value.
C18_DiagonalKept ==
    /\ lab.pc = "done"
    /\ lab.transparentRGB # NoColor
    /\ \E p \in LabMatching \ LabReached :
          /\ \E q \in LabReached : Diagonal(p, q, lab.width)
          /\ lab.flood[p] = lab.original[p]
          /\ lab.flood[p] # KeyPixel(lab.keyColor)

\* C19: the global loop rewrites a pixel to the key colour with alpha 255 if and
\* only if its alpha is 0 or its squared RGB distance to the target is at most
\* thresholdSq, whatever the other pixels are; every other pixel keeps its RGBA.
C19_GlobalPerPixel ==
    (lab.transparentRGB # NoColor /\ lab.pc \in {"box", "done"}) =>
        \A p \in DOMAIN lab.original :
            LET px == lab.original[p]
            IN  lab.global[p] =
                   IF px.a = 0 \/ DistSq(px, lab.transparentRGB) <= lab.thresholdSq
                   THEN KeyPixel(lab.keyColor)
                   ELSE px

\* C19: the global loop has rewritten an opaque pixel at exactly the threshold
\* distance and has kept another pixel.
C19_AtThreshold ==
    /\ lab.pc = "done"
    /\ lab.transparentRGB # NoColor
    /\ \E p \in DOMAIN lab.original :
          /\ lab.original[p].a = 255
          /\ DistSq(lab.original[p], lab.transparentRGB) = lab.thresholdSq
          /\ lab.global[p] = KeyPixel(lab.keyColor)
    /\ \E q \in DOMAIN lab.original : lab.global[q] = lab.original[q]

\* the pixels the flood fill has rewritten
LabConverted == {q \in DOMAIN lab.original : lab.flood[q] # lab.original[q]}

\* C20: a pixel whose alpha is 0 matches whatever its RGB in both modes: the
\* global loop converts every such pixel, and the flood fill converts every such
\* pixel that lies on the border or is 4-adjacent to a converted pixel.
C20_ZeroAlphaMatches ==
    (lab.transparentRGB # NoColor /\ lab.pc \in {"box", "done"}) =>
        LET converted == LabConverted
        IN  \A p \in DOMAIN lab.original :
                lab.original[p].a = 0 =>
                    /\ lab.global[p] = KeyPixel(lab.keyColor)
                    /\ (p \in LabBorder \/ \E q \in converted : Adjacent(p, q, lab.width))
                          => lab.flood[p] = KeyPixel(lab.keyColor)

\* C20: both keyings have converted a transparent pixel off the border whose RGB
\* is far from the target, and the flood fill has kept an opaque pixel.
C20_InnerZeroAlpha ==
    /\ lab.pc = "done"
    /\ lab.transparentRGB # NoColor
    /\ \E p \in DOMAIN lab.original \ LabBorder :
          /\ lab.original[p].a = 0
          /\ DistSq(lab.original[p], lab.transparentRGB) > lab.thresholdSq
          /\ lab.flood[p] = KeyPixel(lab.keyColor)
          /\ lab.global[p] = KeyPixel(lab.keyColor)
    /\ \E q \in DOMAIN lab.original : lab.original[q].a = 255 /\ lab.flood[q] = lab.original[q]

\* the auto-align pre-pass runs in this export
PrePass == config.autoAlign /\ loc.analysisCtx

\* the stages of generateGif after the pre-pass
AfterPrePass == {"dimensions", "gifSetup", "canvasSetup", "render", "encoding"}

\* C21: with auto-align, while the pre-pass is under way no size is fixed, no
\* encoder or working canvas exists, and nothing is drawn for a frame or submitted;
\* once a later stage is reached every sequenced frame has its bounding box
\* recorded; and every frame is submitted at the one output width and height
\* computed from the pre-pass.
C21_PrePassFirst ==
    PrePass =>
        /\ pc = "analyze" =>
              /\ loc.logicalWidth = 0 /\ loc.logicalHeight = 0
              /\ loc.outputWidth = 0 /\ loc.outputHeight = 0
              /\ ~gif.created
              /\ gif.frames = <<>>
              /\ draws = loc.ai - 1
              /\ \A k \in 1..Len(canvases) : canvases[k].name = "analysis"
        /\ (pc \in AfterPrePass \/ gif.frames # <<>>) =>
              /\ loc.ai = Len(loc.validFrameCoordinates) + 1
              /\ \A k \in 1..Len(loc.validFrameCoordinates) :
                    loc.validFrameCoordinates[k].originalIndex \in DOMAIN loc.frameBBoxes
        /\ \A k \in 1..Len(gif.frames) :
              /\ gif.frames[k].width = loc.outputWidth
              /\ gif.frames[k].height = loc.outputHeight
              /\ gif.frames[k].width = gif.frames[1].width
              /\ gif.frames[k].height = gif.frames[1].height

\* C21: an auto-aligned export has submitted two frames whose boxes differ, on a
\* canvas sized from the largest box.
C21_AlignedFramesSubmitted ==
    /\ PrePass
    /\ Len(gif.frames) >= 2
    /\ loc.finalWidth = loc.maxW + AlignMargin
    /\ \E i, j \in 1..Len(gif.frames) :
          /\ gif.frames[i].draw.drawn /\ gif.frames[j].draw.drawn
          /\ gif.frames[i].draw.sw # gif.frames[j].draw.sw

\* the boxes the pre-pass has found
FoundBoxes ==
    {loc.frameBBoxes[i] : i \in {j \in DOMAIN loc.frameBBoxes : loc.frameBBoxes[j].found}}

\* C22: with auto-align and at least one frame with a bounding box, the canvas
\* before scaling is (largest box width + 2) x (largest box height + 2), and the
\* destination rectangle of every frame drawn from its box, in either align mode,
\* lies inside the logical canvas.
C22_BoxesFit ==
    (config.autoAlign /\ pc \in AfterPrePass /\ FoundBoxes # {}) =>
        /\ loc.finalWidth = Greatest({b.width : b \in FoundBoxes}) + 2
        /\ loc.finalHeight = Greatest({b.height : b \in FoundBoxes}) + 2
        /\ \A k \in 1..Len(gif.frames) :
              LET d == gif.frames[k].draw
              IN  d.drawn =>
                    /\ d.dx >= 0
                    /\ d.dy >= 0
                    /\ d.dx + d.dw <= loc.logicalWidth
                    /\ d.dy + d.dh <= loc.logicalHeight
                    /\ d.dw = ScaleFloor(d.sw, config.scaleHalves)
                    /\ d.dh = ScaleFloor(d.sh, config.scaleHalves)

\* C22: a frame whose box is smaller than the largest one has been drawn inside
\* the canvas, away from its left edge.
C22_SmallerBoxDrawn ==
    /\ config.autoAlign
    /\ \E k \in 1..Len(gif.frames) :
          /\ gif.frames[k].draw.drawn
          /\ gif.frames[k].draw.sw < loc.maxW
          /\ gif.frames[k].draw.dx > 0

\* the sequenced frame with this original index
FrameOf(originalIndex) ==
    CHOOSE f \in {loc.validFrameCoordinates[k] : k \in 1..Len(loc.validFrameCoordinates)} :
        f.originalIndex = originalIndex

\* the frame's cropped cell drawn as it is, from the canvas origin
PlainDraw(f) ==
    [drawn |-> TRUE,
     sx |-> f.c * loc.frameWidthRaw + config.crop.left,
     sy |-> f.r * loc.frameHeightRaw + config.crop.top,
     sw |-> loc.cropWidth, sh |-> loc.cropHeight,
     dx |-> 0, dy |-> 0,
     dw |-> ScaleFloor(loc.cropWidth, config.scaleHalves),
     dh |-> ScaleFloor(loc.cropHeight, config.scaleHalves)]

Boxless(frame) == ~BoxOf(loc.frameBBoxes, frame.originalIndex).found

\* the export got its canvases, of positive size
SoundCanvases ==
    /\ loc.bufferCtx
    /\ loc.logicalWidth > 0 /\ loc.logicalHeight > 0
    /\ loc.outputWidth > 0 /\ loc.outputHeight > 0

Magenta == Rgb(255, 0, 255)

Green == Rgb(0, 255, 0)

\* keyColor as the encoder's transparent option: (r << 16) | (g << 8) | b
Packed(color) == 65536 * color.r + 256 * color.g + color.b

\* C24: for every parsed target colour the key colour is magenta, unless the
\* target is nearer than 100 to magenta and the key colour is green; either way
\* the key colour is at least 100 away from the target; and the encoder is given
\* the key colour as its transparent colour exactly when a target is configured.
C24_KeyColor ==
    /\ (/\ pc \notin {"start", "sequence", "transparency"}
        /\ outcome.state # "rejected"
        /\ config.transparent # NoHex) =>
              /\ loc.transparentRGB = hexToRgb(config.transparent)
              /\ loc.keyColor = IF DistSq(loc.transparentRGB, Magenta) < 100 * 100
                                THEN Green ELSE Magenta
              /\ DistSq(loc.keyColor, loc.transparentRGB) >= 100 * 100
    /\ gif.created =>
          gif.transparent = IF config.transparent # NoHex THEN Packed(loc.keyColor) ELSE -1

\* C24: the encoder has been set up for a target exactly 100 away from magenta,
\* with magenta as its transparent colour.
C24_OnTheSphere ==
    /\ gif.created
    /\ config.transparent # NoHex
    /\ DistSq(loc.transparentRGB, Magenta) = 100 * 100
    /\ gif.transparent = Packed(Magenta)

\* the encoder has been set up with green for a target 99 away from magenta
NearMagentaKeyedGreen ==
    /\ gif.created
    /\ loc.transparentRGB = Rgb(156, 0, 255)
    /\ gif.transparent = Packed(Green)

\* C25: in both read orders the index given to a grid cell is its position in the
\* traversal (counted from 0), and the emitted originalIndex sequence is strictly
\* increasing, hence without duplicate, whatever rows, cols, totalFrames and the
\* excluded set are.
C25_IndexIsPosition ==
    Sequenced =>
        /\ LET tempCoords == TempCoords(config.rows, config.cols, config.readOrder)
           IN  \A k \in 1..Len(tempCoords) : tempCoords[k].index = k - 1
        /\ \A i, j \in 1..Len(loc.validFrameCoordinates) :
              i < j => loc.validFrameCoordinates[i].originalIndex
                         < loc.validFrameCoordinates[j].originalIndex

\* C25: a column-major grid of at least two rows and two columns has been
\* sequenced with a frame excluded between two emitted ones.
C25_ColumnMajorSequenced ==
    /\ Sequenced
    /\ config.readOrder = "column-major"
    /\ config.rows >= 2 /\ config.cols >= 2
    /\ Len(loc.validFrameCoordinates) >= 3
    /\ \E k \in 1..(Len(loc.validFrameCoordinates) - 1) :
          loc.validFrameCoordinates[k + 1].originalIndex
            > loc.validFrameCoordinates[k].originalIndex + 1

\* C26: the preview's list of valid indices is the export's emitted originalIndex
\* list, in the same order; the row and column the preview derives back from an
\* emitted index are the r and c the export uses for it; and for every grid cell
\* the sequence index the overlay toggles, which it shows counted from 1, is the
\* index the export gives that cell, marked out of range or excluded exactly when
\* the export drops it.
C26_ViewsAgree ==
    Sequenced =>
        /\ getValidFrameIndices(config) = OriginalIndices(loc.validFrameCoordinates)
        /\ \A k \in 1..Len(loc.validFrameCoordinates) :
              LET f == loc.validFrameCoordinates[k]
              IN  PreviewCell(config, f.originalIndex) = [row |-> f.r, col |-> f.c]
        /\ LET tempCoords == TempCoords(config.rows, config.cols, config.readOrder)
           IN  \A i \in 0..(config.rows * config.cols - 1) :
                 LET cell == OverlayCell(config, i)
                 IN  \E k \in 1..Len(tempCoords) :
                       /\ tempCoords[k].r = cell.r /\ tempCoords[k].c = cell.c
                       /\ tempCoords[k].index = cell.seqIndex
                       /\ cell.shown = tempCoords[k].index + 1
                       /\ (cell.isOutOfRange \/ cell.isExcluded)
                            <=> \A j \in 1..Len(loc.validFrameCoordinates) :
                                   loc.validFrameCoordinates[j].originalIndex # cell.seqIndex

\* C26: a column-major grid with more columns than rows has been sequenced, and
\* a frame away from the first row and column is emitted.
C26_ColumnMajorViewed ==
    /\ Sequenced
    /\ config.readOrder = "column-major"
    /\ config.rows = 2 /\ config.cols = 3
    /\ config.excludedFrames # {}
    /\ \E k \in 1..Len(loc.validFrameCoordinates) :
          loc.validFrameCoordinates[k].r > 0 /\ loc.validFrameCoordinates[k].c > 0

\* a generateGif call started by handleExport has not settled
GeneratePending == pc # "idle" /\ outcome = Pending

\* C27: while a generateGif call started by handleExport is pending, the status
\* is 'rendering', whatever uploads, detections and timers interleave
C27_RenderingWhilePending ==
    GeneratePending => ui.processingState.status = "rendering"

\* C27: a render is pending and the export button is enabled again
C27_ButtonEnabledWhilePending ==
    /\ GeneratePending
    /\ ui.imageUrl
    /\ ui.processingState.status # "rendering"

\* this step is the settling of a request made for an image replaced since
LateAnswer ==
    /\ ui'.requests = ui.requests - 1
    /\ ui'.stale = ui.stale - 1

\* C28: the result of an analysis requested for an image that has been replaced
\* leaves rows, cols and totalFrames of the new image's config as they are
C28_ResultForItsImage ==
    [][LateAnswer => /\ config'.rows = config.rows
                     /\ config'.cols = config.cols
                     /\ config'.totalFrames = config.totalFrames]_vars

\* C28: a new image has been uploaded, its config reset, with an analysis pending
C28_UploadedWhileAnalyzing ==
    /\ ui.stale > 0
    /\ ui.imageUrl
    /\ config = INITIAL_CONFIG

\* C29: once the encoder has fired 'finished' or generateGif has rejected, the
\* status returns to 'idle': after a rejection with an error message set, after
\* a success through 'completed' at progress 100 and from there to 'idle' at 0
C29_BackToIdle ==
    /\ (pc = "done" /\ outcome # Resolved)
          ~> (ui.processingState.status = "idle" /\ ui.processingState.error # "")
    /\ (pc = "done" /\ outcome = Resolved)
          ~> (ui.processingState = Processing("completed", CompletedProgress, ""))
    /\ (ui.processingState.status = "completed")
          ~> (ui.processingState = Processing("idle", 0, ""))

\* C29: an export has succeeded and its timer is running
C29_CompletedShown ==
    /\ ui.processingState = Processing("completed", CompletedProgress, "")
    /\ ui.timer
    /\ pc = "idle"

\* the pixels the two seeding loops of applyFloodFill call addSeed on
LabSeeded ==
    LET seeds == SeedOrder(lab.width, lab.height)
    IN  {seeds[i][2] * lab.width + seeds[i][1] : i \in DOMAIN seeds}

\* no pixel is in the queue twice, the queue holds at most width * height
\* entries, head is within it, and every border pixel has been tried as a seed;
\* the queue is only ever appended to, so what holds of it at the end of the
\* loop held of it throughout
FloodQueueSound ==
    (lab.transparentRGB # NoColor /\ lab.pc \in {"flood", "global", "box", "done"}) =>
        LET queue == lab.fl.queue
        IN  /\ \A i, j \in DOMAIN queue : queue[i] = queue[j] => i = j
            /\ Len(queue) <= lab.width * lab.height
            /\ lab.fl.head <= Len(queue)
            /\ \A i \in DOMAIN queue : lab.fl.visited[queue[i]]
            /\ LabSeeded = LabBorder
            /\ \A p \in LabBorder \cap LabMatching :
                   lab.fl.visited[p] /\ \E i \in DOMAIN queue : queue[i] = p

\* C30: applyFloodFill terminates on every bitmap of positive width and height,
\* width 1 and height 1 included: its loop ends with the queue used up, no pixel
\* queued twice, at most width * height entries in the queue, and every border
\* pixel tried as a seed
C30_FloodTerminates ==
    (lab.pc = "flood")
        ~> (lab.pc = "global" /\ lab.fl.head = Len(lab.fl.queue) /\ FloodQueueSound)

\* C30: the fill has ended on a bitmap one pixel high and more than one wide,
\* each of whose pixels was queued
C30_SingleRowFilled ==
    /\ lab.pc = "global"
    /\ lab.height = 1
    /\ lab.width > 1
    /\ Len(lab.fl.queue) = lab.width
    /\ lab.fl.head = lab.width

====
